---- MODULE Spec2Model ----
(***************************************************************************)
(* DriveHandler (the append-only log / _meta.json storage engine of the    *)
(* Google Drive PouchDB adapter) as a state machine.                       *)
(*                                                                         *)
(* One step of the model is one remote call of the store client together   *)
(* with the synchronous continuation that runs when it resolves.  The      *)
(* store is the folder of one database: a map from object ids to objects,  *)
(* each with a name (kind), a content and an ETag.  Drive's object ids are *)
(* opaque; here an id says which call created the object.                  *)
(***************************************************************************)
EXTENDS Integers, Sequences, FiniteSets, TLC

\* The two handlers of tests/concurrency_mock.test.ts and the documents they write.
Insts == {"h1", "h2"}
\* A handler constructed on the folder once the others are at rest: the fresh instance.
Fresh == "h3"
Handlers == Insts \cup {Fresh}
Docs == {"doc1", "doc2"}
DocOrder == <<"doc1", "doc2">>
\* The callbacks the callers of onChange register.
Callbacks == {"cb1", "cb2"}

\* ------------------------------------------------------------------ bounds
MaxAppends == 2
MaxCompacts == 1
MaxLoads == 1
MaxGets == 1

\* -------------------------------------------------------- program constants
MAX_RETRIES == 5
DEFAULT_COMPACTION_THRESHOLD == 100
CountTotalChangesBase == 10

VARIABLES
    world,      \* the build and the store client the handlers run against
    files,      \* the remote folder: object id -> object (ids are never reused)
    metaList,   \* the ids of the objects named _meta.json, in creation order
    h,          \* per handler: the DriveHandler fields
    ld,         \* per handler: the load() in flight (loadingPromise)
    km,         \* per handler: the compact() in flight
    calls,      \* per handler: the appendChanges calls made so far
    left,       \* how many more calls the callers will make
    committed,  \* history: the change entries whose metadata commit succeeded
    getRes,     \* history: the last get() and what it returned
    lru,        \* an LRUCache in the hands of its callers
    feed        \* history: the last _changes call of the adapter and its callbacks

vars == <<world, lru, feed, files, metaList, h, ld, km, calls, left, committed, getRes>>

\* ------------------------------------------------------------------ values
FileId(kind, inst, n, try) == [kind |-> kind, inst |-> inst, n |-> n, try |-> try]
NoFile == FileId("none", "none", 0, 0)
MetaId(i) == FileId("meta", i, 0, 0)
LogId(i, k, try) == FileId("log", i, k, try)
DataId(i, n) == FileId("sdata", i, n, 0)
IndexId(i, n) == FileId("sidx", i, n, 0)

\* An ETag: the object and how often it has been written.
NoEtag == [of |-> "none", version |-> 0]
Etag(f, version) == [of |-> f.inst, version |-> version]

\* A revision "gen-hash": the hash stands for the call that minted it.
NoRev == [gen |-> 0, by |-> "none", call |-> 0]
NoDoc == [val |-> NoRev, rev |-> NoRev]
NoEntry == [rev |-> NoRev, seq |-> 0, deleted |-> FALSE, fileId |-> NoFile]
EmptyIndex == [d \in Docs |-> NoEntry]
EmptyDocs == [d \in Docs |-> NoDoc]

EmptyMeta == [seq |-> 0, changeLogIds |-> <<>>, snapshotIndexId |-> NoFile]
MetaObject(meta) == [kind |-> "meta", meta |-> meta]

\* The errors appendChanges rejects with: checkConflicts' error, the error of
\* the loop's end, and an error of the store client (status 0: none, the
\* request did not get an answer).
NoError == [status |-> 0, name |-> "none", message |-> "none"]
ConflictError == [status |-> 409, name |-> "conflict", message |-> "Document update conflict"]
ExhaustedError == [status |-> 0, name |-> "Error", message |-> "Failed to append changes"]
ClientError(status) ==
    [status |-> status, name |-> "Error",
     message |-> IF status = 0 THEN "Network Error" ELSE "Drive API Error"]
LoadError == [status |-> 0, name |-> "Error", message |-> "load"]

\* The answers of a store that fails: no answer, or a server error.
FaultStatuses == {0, 500}

Max(S) == CHOOSE x \in S : \A y \in S : x >= y
Range(s) == {s[k] : k \in 1..Len(s)}

\* ------------------------------------------------------------- LRUCache
\* The Map of an LRUCache: its entries in insertion order.  evicted: history,
\* the key the last put() evicted.
Undefined == "undefined"
NoCall == [op |-> "none", key |-> "none", value |-> Undefined]
NewCache(capacity) ==
    [capacity |-> capacity, map |-> <<>>, evicted |-> "none",
     used |-> <<>>, last |-> NoCall]
NoCache == NewCache(0)

\* Map.has, Map.get, Map.delete and Map.set of a key that is not in the map
Has(map, key) == \E k \in 1..Len(map) : map[k].key = key
MapGet(map, key) ==
    IF Has(map, key) THEN map[CHOOSE k \in 1..Len(map) : map[k].key = key].value
    ELSE Undefined
MapDelete(map, key) == SelectSeq(map, LAMBDA e : e.key # key)
MapSet(map, key, value) == Append(map, [key |-> key, value |-> value])

\* A get that leaves the order of the map as it is.
LruGet_NoRefresh(c, key) == c

\* get(key): a value that is not undefined moves to the end of the map
LruGet(c, key) ==
    LET value == MapGet(c.map, key)
    IN  IF value # Undefined
        THEN [c EXCEPT !.map = MapSet(MapDelete(c.map, key), key, value)]
        ELSE c

\* A put that never evicts.
LruPut_NoEviction(c, key, value) ==
    [c EXCEPT !.map = MapSet(MapDelete(c.map, key), key, value), !.evicted = "none"]

\* put(key, value): the key's old entry goes, or the first entry of a full map
LruPut(c, key, value) ==
    IF Has(c.map, key)
    THEN [c EXCEPT !.map = MapSet(MapDelete(c.map, key), key, value),
                   !.evicted = "none"]
    ELSE IF Len(c.map) >= c.capacity /\ c.map # <<>>
    THEN [c EXCEPT !.map = MapSet(Tail(c.map), key, value),
                   !.evicted = Head(c.map).key]
    ELSE [c EXCEPT !.map = MapSet(c.map, key, value), !.evicted = "none"]

\* remove(key)
LruRemove(c, key) == [c EXCEPT !.map = MapDelete(c.map, key)]

\* History of a cache: used holds the keys the cache holds, the least recently
\* used first, where a put and a get that returns a value are uses; last is
\* the call made last.
Keys(map) == {map[k].key : k \in 1..Len(map)}
Touch(used, key) == Append(SelectSeq(used, LAMBDA k : k # key), key)
Recorded(c, used, op, key, value) ==
    [c EXCEPT !.used = SelectSeq(used, LAMBDA k : k \in Keys(c.map)),
              !.last = [op |-> op, key |-> key, value |-> value]]

\* ------------------------------------------------------------- the store
Live(f) == f \in DOMAIN files /\ files[f].live

\* listFiles(name = '_meta.json') and files[0] of the answer.
FindFile == IF metaList = <<>> THEN NoFile ELSE Head(metaList)

\* The ETag the store client hands back for an object: the store's, or none
\* when the client does not ask the store for it.
ClientEtag(e) == IF world.etags THEN e ELSE NoEtag

NewObject(f, kind, content) ==
    [kind |-> kind, live |-> TRUE, etag |-> Etag(f, 1), content |-> content]

\* createFile
CreateFile(f, kind, content) == (f :> NewObject(f, kind, content)) @@ files

\* updateFile with an optional If-Match: 200, 412 on a mismatch, 404 when gone.
UpdateStatus(f, expectedEtag) ==
    IF ~Live(f) THEN 404
    ELSE IF expectedEtag # NoEtag /\ expectedEtag # files[f].etag THEN 412
    ELSE 200

NextEtag(f) == Etag(f, files[f].etag.version + 1)

\* modifiedTime of an object: the time of its last write, here their number.
\* The handler keeps metaModifiedTime for its poller, which alone reads it.
NoTime == 0
ModifiedTime(f) == files[f].etag.version
ObservedTime(t) == IF world.pollingIntervalMs THEN t ELSE NoTime

UpdateFile(f, content) ==
    [files EXCEPT ![f].content = content, ![f].etag = NextEtag(f)]

DeleteFile(f) ==
    IF Live(f) THEN [files EXCEPT ![f].live = FALSE] ELSE files

\* ------------------------------------------------------------ fetchFile
\* A change log of one line parses as one object, of several lines as an array.
ParseNdjson(lines) ==
    IF Len(lines) = 1 THEN [kind |-> "entry", entry |-> lines[1]]
    ELSE [kind |-> "array", entries |-> lines]

Parse(file) ==
    IF file.kind = "log" THEN ParseNdjson(file.content) ELSE file.content

\* [ok, content, cache]: the file cache first, the store on a miss.
FetchFile(cache, f) ==
    IF f \in DOMAIN cache THEN [ok |-> TRUE, content |-> cache[f], cache |-> cache]
    ELSE IF Live(f)
    THEN [ok |-> TRUE, content |-> Parse(files[f]),
          cache |-> (f :> Parse(files[f])) @@ cache]
    ELSE [ok |-> FALSE, content |-> [kind |-> "none"], cache |-> cache]

\* ------------------------------------------------------------ the index
UpdateIndex(index, change, fileId) ==
    [index EXCEPT ![change.id] =
        [rev |-> change.rev, seq |-> change.seq,
         deleted |-> change.deleted, fileId |-> fileId]]

RECURSIVE ApplyChanges(_, _, _)
ApplyChanges(index, changes, fileId) ==
    IF changes = <<>> THEN index
    ELSE ApplyChanges(UpdateIndex(index, Head(changes), fileId), Tail(changes), fileId)

ChangedIds(changes) == {changes[k].id : k \in 1..Len(changes)}

\* --------------------------------------------------------- initial state
\* History: what had happened when a call started: how many entries had been
\* committed, and whether a compact() had swapped the metadata and returned.
NoStamp == [since |-> 0, afterSwap |-> FALSE]
Stamp ==
    [since |-> Len(committed),
     afterSwap |-> \E j \in Insts : km[j].swapped /\ km[j].pc \in {"cleanup", "done"}]

\* notifyListeners: the map it builds from the index.
ChangesOf(index) ==
    [d \in {e \in Docs : index[e] # NoEntry} |->
        [id |-> d, rev |-> index[d].rev, deleted |-> index[d].deleted]]

\* History: how many notifications a handler has sent, the map of the last
\* one and the callbacks it invoked, in order.
NoNotification == [n |-> 0, changes |-> <<>>, invoked |-> <<>>]

\* loadFiles, repeated: history, see CallLoad.  pollingInterval: no timer
\* yet, a timer that runs, or a timer that was cleared.  poll: where the poll
\* in flight is ("idle" with isPollingActive: it awaits load()).  stopped:
\* history, stopPolling() has been called.  unread: history, the object a
\* request of the load in flight (or of the last load) failed to read.
InitHandler ==
    [loaded |-> FALSE, lastLoad |-> "none", loadStart |-> NoStamp, overwrote |-> FALSE,
     loadFiles |-> <<>>, repeated |-> FALSE, unread |-> NoFile,
     meta |-> EmptyMeta, metaEtag |-> NoEtag, metaModifiedTime |-> NoTime,
     pollingInterval |-> "none", isPollingActive |-> FALSE, poll |-> "idle",
     listeners |-> <<>>, stopped |-> FALSE, notified |-> NoNotification,
     index |-> EmptyIndex, docCache |-> EmptyDocs, fileCache |-> <<>>,
     processedLogIds |-> {}, currentSnapshotIndexId |-> NoFile]

\* callers: the load() callers awaiting this load; running: the load bodies
\* started and not finished; repeat: history, see CallLoad.
IdleLoad == [pc |-> "idle", file |-> NoFile, etag |-> NoEtag,
             content |-> EmptyMeta, logs |-> <<>>, modifiedTime |-> NoTime,
             callers |-> 0, running |-> 0, repeat |-> FALSE]

\* entry: the index entry get() found; remote: it asked the store for an object.
\* No _changes call yet.
NoFeed == [by |-> "none"]

NoGet == [by |-> "none", id |-> "none", doc |-> NoDoc, found |-> FALSE,
          from |-> "none", file |-> NoFile, lastLoad |-> "none", loadStart |-> NoStamp,
          entry |-> NoEntry, remote |-> FALSE]

\* The load in flight at its next await: the locals of the step before are dead.
NextStep(l) ==
    [IdleLoad EXCEPT !.callers = l.callers, !.running = l.running, !.repeat = l.repeat]

\* The fresh instance has not been started: the others still make calls.
Open == h[Fresh].lastLoad = "none" /\ ld[Fresh].pc = "idle"

\* Every call made so far has settled, the clean-up of a compaction included.
AtRest ==
    /\ \A i \in Insts : ld[i].pc = "idle" /\ km[i].pc \in {"idle", "done", "failed"}
    /\ \A i \in Insts : \A k \in DOMAIN calls[i] : calls[i][k].pc \in {"done", "failed"}

\* No continuation of a settled load() is still queued on handler i: the
\* continuations of a resolved promise run before any other callback of i.
Ready(i) == \A k \in DOMAIN calls[i] : calls[i][k].pc # "loaded"

\* ------------------------------------------------------------------ load()
\* The callers awaiting the load() of handler i resume, or are rejected with it.
WakeCalls(i, ok) ==
    [calls EXCEPT ![i] =
        [k \in DOMAIN calls[i] |->
            IF calls[i][k].pc = "awaitLoad"
            THEN [calls[i][k] EXCEPT !.pc = IF ok THEN "loaded" ELSE "failed",
                                     !.result = IF ok THEN @ ELSE "load_error",
                                     !.error = IF ok THEN @ ELSE LoadError]
            ELSE calls[i][k]]]

\* startPolling: clearInterval of the old timer, setInterval of a new one.
StartPolling(hi) == [hi EXCEPT !.pollingInterval = "set"]

\* A callback of a caller that throws when it is called.
Throwing == {"cbThrows"}

\* "for (const l of this.listeners) l(changes)": the listeners called, in
\* order; the first one that throws ends the loop.
Invoked(listeners) ==
    LET ks == {k \in DOMAIN listeners : listeners[k] \in Throwing}
    IN  IF ks = {} THEN listeners
        ELSE SubSeq(listeners, 1, CHOOSE k \in ks : \A m \in ks : k <= m)

\* notifyListeners
NotifyListeners(hi) ==
    [hi EXCEPT !.notified = [n |-> @.n + 1, changes |-> ChangesOf(hi.index),
                             invoked |-> Invoked(hi.listeners)]]

\* A poll that awaits load() (see PollFind).
PollAwaits(hi) == hi.isPollingActive /\ hi.poll = "idle"

\* The poll that awaited the load ends: after notifyListeners() when load()
\* resolved, in its catch when load() rejected.
PollResumes(hi, ok) ==
    IF PollAwaits(hi)
    THEN [(IF ok THEN NotifyListeners(hi) ELSE hi) EXCEPT !.isPollingActive = FALSE]
    ELSE hi

\* The end of load()'s body: polling starts when the handler has the option.
LoadResolve(i, hi) ==
    LET hp == IF world.pollingIntervalMs THEN StartPolling(hi) ELSE hi
    IN  /\ h' = [h EXCEPT ![i] = [PollResumes(hp, TRUE) EXCEPT
                        !.loaded = TRUE, !.lastLoad = "ok",
                        !.repeated = ld[i].repeat /\ files = hi.loadFiles]]
        /\ ld' = [ld EXCEPT ![i] = IdleLoad]
        /\ calls' = WakeCalls(i, TRUE)

LoadReject(i, hi) ==
    /\ h' = [h EXCEPT ![i] = [PollResumes(hi, FALSE) EXCEPT !.lastLoad = "error"]]
    /\ ld' = [ld EXCEPT ![i] = IdleLoad]
    /\ calls' = WakeCalls(i, FALSE)

\* The replay loop starts: the log ids of this.meta not yet processed.
BeginLogs(i, hi) ==
    LET rem == SelectSeq(hi.meta.changeLogIds, LAMBDA f : f \notin hi.processedLogIds)
    IN  IF rem = <<>> THEN LoadResolve(i, hi)
        ELSE /\ h' = [h EXCEPT ![i] = hi]
             /\ ld' = [ld EXCEPT ![i] = [NextStep(ld[i]) EXCEPT !.pc = "logs", !.logs = rem]]
             /\ UNCHANGED calls

\* A load() that takes every MetaDocument for one of a new snapshot.
SnapshotChanged_Always(hi) == TRUE

\* this.meta.snapshotIndexId !== this.currentSnapshotIndexId
SnapshotChanged(hi) == hi.meta.snapshotIndexId # hi.currentSnapshotIndexId

\* After this.meta is known: a changed snapshotIndexId resets the index.
AfterMeta(i, hi) ==
    LET changed == SnapshotChanged(hi)
        hr == IF changed
              THEN [hi EXCEPT !.index = EmptyIndex, !.processedLogIds = {},
                              !.currentSnapshotIndexId = hi.meta.snapshotIndexId]
              ELSE hi
    IN  IF changed /\ hi.meta.snapshotIndexId # NoFile
        THEN /\ h' = [h EXCEPT ![i] = hr]
             /\ ld' = [ld EXCEPT ![i] = [NextStep(ld[i]) EXCEPT !.pc = "snap",
                                                  !.file = hi.meta.snapshotIndexId]]
             /\ UNCHANGED calls
        ELSE BeginLogs(i, hr)

\* A load() that never finds a load in flight.
LoadingPromise_Never(l) == FALSE

\* if (this.loadingPromise) return this.loadingPromise
LoadingPromise(l) == l.pc # "idle"

\* History: the last load() of handler i resolved and the store has not
\* changed since it started.
Quiet(i) == h[i].lastLoad = "ok" /\ h[i].loadFiles = files

\* load() is called on handler i, by a caller of load() or from the catch of
\* appendChanges: it joins the load in flight or starts one.  History: whether
\* the load repeats a load that resolved, with no change of the store since
\* that one started (repeat), and, for such a load and when the caller will
\* call load() again, the store as this load found it (loadFiles).  hi: the
\* handler's fields as the caller leaves them.
CallLoad(i, hi, byCaller, again) ==
    IF LoadingPromise(ld[i])
    THEN /\ ld' = [ld EXCEPT ![i].callers = @ + (IF byCaller THEN 1 ELSE 0)]
         /\ h' = [h EXCEPT ![i] = hi]
    ELSE /\ ld' = [ld EXCEPT ![i] = [IdleLoad EXCEPT
                    !.pc = "find", !.running = ld[i].running + 1,
                    !.callers = IF byCaller THEN 1 ELSE 0,
                    !.repeat = Quiet(i)]]
         /\ h' = [h EXCEPT ![i] = [hi EXCEPT
                    !.loadStart = Stamp, !.lastLoad = "pending",
                    !.loadFiles = IF again \/ Quiet(i) THEN files ELSE <<>>,
                    !.repeated = FALSE, !.unread = NoFile]]

\* A caller (the adapter at start-up, a test, the poller) calls load().
LoadCall(i) ==
    /\ Open
    /\ Ready(i)
    /\ i \in left.loaders
    /\ left.loads > 0
    /\ left' = [left EXCEPT !.loads = @ - 1]
    /\ CallLoad(i, h[i], TRUE, left.loads > 1)
    /\ UNCHANGED <<world, lru, feed, files, metaList, km, calls, committed, getRes>>

\* The fresh instance's load(), called when the others are at rest.
FreshLoad ==
    /\ Open
    /\ AtRest
    /\ CallLoad(Fresh, h[Fresh], TRUE, FALSE)
    /\ UNCHANGED <<world, lru, feed, files, metaList, km, calls, left, committed, getRes>>

\* findFile('_meta.json')
LoadFind(i) ==
    /\ Ready(i)
    /\ ld[i].pc = "find"
    /\ ld' = [ld EXCEPT ![i] =
                IF FindFile # NoFile
                THEN [NextStep(ld[i]) EXCEPT !.pc = "meta", !.file = FindFile,
                                      !.etag = ClientEtag(files[FindFile].etag),
                                      !.modifiedTime = ObservedTime(ModifiedTime(FindFile))]
                ELSE [NextStep(ld[i]) EXCEPT !.pc = "sfind", !.content = h[i].meta]]
    /\ UNCHANGED <<world, lru, feed, files, metaList, h, km, calls, left, committed, getRes>>

\* this.meta = downloadJson(metaFile.id); this.metaEtag = metaFile.etag || null;
\* this.metaModifiedTime = metaFile.modifiedTime || null
LoadMeta(i) ==
    /\ Ready(i)
    /\ ld[i].pc = "meta"
    /\ LET r == FetchFile(h[i].fileCache, ld[i].file)
       IN  IF r.ok
           THEN AfterMeta(i, [h[i] EXCEPT !.fileCache = r.cache,
                                          !.meta = r.content.meta,
                                          !.metaEtag = ld[i].etag,
                                          !.metaModifiedTime = ld[i].modifiedTime])
           ELSE LoadReject(i, h[i])
    /\ UNCHANGED <<world, lru, feed, files, metaList, km, left, committed, getRes>>

\* saveMeta(this.meta) of a first load: its own findFile
LoadSaveFind(i) ==
    /\ Ready(i)
    /\ ld[i].pc = "sfind"
    /\ ld' = [ld EXCEPT ![i].pc = "swrite", ![i].file = FindFile]
    /\ UNCHANGED <<world, lru, feed, files, metaList, h, km, calls, left, committed, getRes>>

\* saveMeta(this.meta) of a first load: update without If-Match, or create
LoadSaveWrite(i) ==
    /\ Ready(i)
    /\ ld[i].pc = "swrite"
    /\ LET f == ld[i].file
           doc == MetaObject(ld[i].content)
       IN  IF f # NoFile /\ ~Live(f)
           THEN /\ LoadReject(i, h[i])
                /\ UNCHANGED <<files, metaList>>
           ELSE IF f # NoFile
           THEN /\ files' = UpdateFile(f, doc)
                /\ AfterMeta(i, [h[i] EXCEPT !.metaEtag = ClientEtag(NextEtag(f)),
                                              !.metaModifiedTime = ObservedTime(NextEtag(f).version),
                                              !.overwrote = TRUE])
                /\ UNCHANGED metaList
           ELSE /\ files' = CreateFile(MetaId(i), "meta", doc)
                /\ metaList' = Append(metaList, MetaId(i))
                /\ AfterMeta(i, [h[i] EXCEPT !.metaEtag = ClientEtag(Etag(MetaId(i), 1)),
                                              !.metaModifiedTime = ObservedTime(1)])
    /\ UNCHANGED <<world, lru, feed, km, left, committed, getRes>>

\* downloadJson(this.meta.snapshotIndexId): a failure is only logged
LoadSnapshot(i) ==
    /\ Ready(i)
    /\ ld[i].pc = "snap"
    /\ LET r == FetchFile(h[i].fileCache, ld[i].file)
       IN  IF r.ok /\ r.content.kind = "sidx"
           THEN BeginLogs(i, [h[i] EXCEPT !.fileCache = r.cache,
                                          !.index = r.content.entries])
           ELSE BeginLogs(i, [h[i] EXCEPT !.fileCache = r.cache])
    /\ UNCHANGED <<world, lru, feed, files, metaList, km, left, committed, getRes>>

\* One round of the replay loop: downloadNdjson(logId) and its for-of, which
\* throws on the single object of a one-line log when the build iterates
\* natively and runs zero times when it is compiled to an index loop.
LoadLog(i) ==
    /\ Ready(i)
    /\ ld[i].pc = "logs"
    /\ LET f == Head(ld[i].logs)
           r == FetchFile(h[i].fileCache, f)
           hc == [h[i] EXCEPT !.fileCache = r.cache]
           next(hi) ==
               IF Tail(ld[i].logs) = <<>> THEN LoadResolve(i, hi)
               ELSE /\ h' = [h EXCEPT ![i] = hi]
                    /\ ld' = [ld EXCEPT ![i].logs = Tail(@)]
                    /\ UNCHANGED calls
       IN  IF ~r.ok THEN LoadReject(i, h[i])
           ELSE IF r.content.kind = "array"
           THEN next([hc EXCEPT
                    !.index = ApplyChanges(@, r.content.entries, f),
                    !.docCache = [d \in Docs |->
                        IF d \in ChangedIds(r.content.entries) THEN NoDoc ELSE @[d]],
                    !.processedLogIds = @ \cup {f}])
           ELSE IF world.nativeForOf
           THEN LoadReject(i, hc)
           ELSE next([hc EXCEPT !.processedLogIds = @ \cup {f}])
    /\ UNCHANGED <<world, lru, feed, files, metaList, km, left, committed, getRes>>

\* ------------------------------------------------- polling and listeners
\* The timer of startPolling fires and no poll is in flight.
PollFire(i) ==
    /\ h[i].pollingInterval = "set"
    /\ ~h[i].isPollingActive
    /\ left.polls > 0
    /\ left' = [left EXCEPT !.polls = @ - 1]
    /\ h' = [h EXCEPT ![i].isPollingActive = TRUE, ![i].poll = "find"]
    /\ UNCHANGED <<world, lru, feed, files, metaList, ld, km, calls, committed, getRes>>

\* A poll that takes every stamp for a new one.
StampDiffers_Always(t, hi) == TRUE

\* metaFile.modifiedTime !== this.metaModifiedTime
StampDiffers(t, hi) == t # hi.metaModifiedTime

\* The poll's findFile('_meta.json') and the comparison of the stamps:
\* await this.load() when they differ, the end of the poll otherwise.
PollFind(i) ==
    /\ Ready(i)
    /\ h[i].poll = "find"
    /\ IF FindFile # NoFile /\ StampDiffers(ModifiedTime(FindFile), h[i])
       THEN CallLoad(i, [h[i] EXCEPT !.poll = "idle"], FALSE, FALSE)
       ELSE /\ h' = [h EXCEPT ![i].poll = "idle", ![i].isPollingActive = FALSE]
            /\ UNCHANGED ld
    /\ UNCHANGED <<world, lru, feed, files, metaList, km, calls, left, committed, getRes>>

\* stopPolling(): clearInterval of the timer, if there has been one.
StopPolling(i) ==
    /\ i \in left.loaders
    /\ left.stops > 0
    /\ left' = [left EXCEPT !.stops = @ - 1]
    /\ h' = [h EXCEPT ![i].stopped = TRUE,
                      ![i].pollingInterval = IF @ = "none" THEN "none" ELSE "cleared"]
    /\ UNCHANGED <<world, lru, feed, files, metaList, ld, km, calls, committed, getRes>>

\* onChange(cb): this.listeners.push(cb)
OnChange(i, cb) ==
    /\ i \in left.loaders
    /\ left.listens > 0
    /\ left' = [left EXCEPT !.listens = @ - 1, !.subscribed = @ \cup {<<i, cb>>}]
    /\ h' = [h EXCEPT ![i].listeners = Append(@, cb)]
    /\ UNCHANGED <<world, lru, feed, files, metaList, ld, km, calls, committed, getRes>>

\* The function onChange(cb) returned is called: filter(l => l !== cb).
Unsubscribe(i, cb) ==
    /\ i \in left.loaders
    /\ <<i, cb>> \in left.subscribed
    /\ left.unsubs > 0
    /\ left' = [left EXCEPT !.unsubs = @ - 1]
    /\ h' = [h EXCEPT ![i].listeners = SelectSeq(@, LAMBDA l : l # cb)]
    /\ UNCHANGED <<world, lru, feed, files, metaList, ld, km, calls, committed, getRes>>

\* The request for the snapshot index fails (no answer, or a server error):
\* the catch around downloadJson logs a warning and load() goes on to the logs
\* with the index it has just emptied.
LoadSnapshotFails(i) ==
    /\ Ready(i)
    /\ ld[i].pc = "snap"
    /\ ld[i].file \notin DOMAIN h[i].fileCache
    /\ left.faults > 0
    /\ left' = [left EXCEPT !.faults = @ - 1]
    /\ BeginLogs(i, [h[i] EXCEPT !.unread = ld[i].file])
    /\ UNCHANGED <<world, lru, feed, files, metaList, km, committed, getRes>>

\* The request for a change log fails: nothing catches it, load() rejects.
LoadLogFails(i) ==
    /\ Ready(i)
    /\ ld[i].pc = "logs"
    /\ Head(ld[i].logs) \notin DOMAIN h[i].fileCache
    /\ left.faults > 0
    /\ left' = [left EXCEPT !.faults = @ - 1]
    /\ LoadReject(i, [h[i] EXCEPT !.unread = Head(ld[i].logs)])
    /\ UNCHANGED <<world, lru, feed, files, metaList, km, committed, getRes>>

\* ------------------------------------------- compact(): values and start
IdleCompact ==
    [pc |-> "idle", n |-> 0, snapshotSeq |-> 0, oldLogIds |-> <<>>, oldIndexId |-> NoFile,
     byFile |-> [d \in Docs |-> NoFile], toFetch |-> <<>>, results |-> EmptyDocs,
     dataFileId |-> NoFile, entries |-> EmptyIndex, newIndexId |-> NoFile,
     attempt |-> 0, metaFile |-> NoFile, etag |-> NoEtag, newMeta |-> EmptyMeta,
     swapped |-> FALSE, toDelete |-> <<>>, start |-> NoStamp, trigger |-> 0,
     allIds |-> {}]

\* The objects getMulti fetches, each once, in the order of the ids it is given.
RECURSIVE FetchOrder(_, _)
FetchOrder(byFile, ids) ==
    IF ids = <<>> THEN <<>>
    ELSE LET rest == FetchOrder(byFile, Tail(ids))
             f == byFile[Head(ids)]
         IN  IF f = NoFile THEN rest
             ELSE <<f>> \o SelectSeq(rest, LAMBDA g : g # f)

\* What getMulti takes for docId out of a fetched object: the last entry of an
\* array, the entry of a snapshot data chunk; any other shape gives null.
DocInContent(content, d) ==
    IF content.kind = "array"
    THEN LET ks == {k \in 1..Len(content.entries) : content.entries[k].id = d}
         IN  IF ks = {} THEN NoDoc ELSE content.entries[Max(ks)].doc
    ELSE IF content.kind = "sdata" THEN content.docs[d]
    ELSE NoDoc

\* compact() up to getMulti's first await: the docs in the doc cache are taken
\* from it, the others are grouped by the object that holds them.  trigger is
\* the appendChanges call that started it (0: a caller of compact()).
BeginCompact(i, hi, start, trigger) ==
    LET allIds == {d \in Docs : hi.index[d].fileId # NoFile /\ ~hi.index[d].deleted}
        cached == {d \in allIds : hi.docCache[d] # NoDoc}
        byFile == [d \in Docs |-> IF d \in allIds \ cached
                                  THEN hi.index[d].fileId ELSE NoFile]
        toFetch == FetchOrder(byFile, DocOrder)
    IN  [IdleCompact EXCEPT
            !.pc = IF toFetch = <<>> THEN "data" ELSE "fetch",
            !.n = km[i].n + 1, !.start = start, !.trigger = trigger,
            !.snapshotSeq = hi.meta.seq, !.allIds = allIds,
            !.oldLogIds = hi.meta.changeLogIds,
            !.oldIndexId = hi.meta.snapshotIndexId,
            !.byFile = byFile, !.toFetch = toFetch,
            !.results = [d \in Docs |-> IF d \in cached
                                        THEN hi.docCache[d] ELSE NoDoc]]

\* countTotalChanges() >= this.compactionThreshold; the byte estimate of a
\* handful of entries stays far below the 1 MB threshold.
ShouldCompact == CountTotalChangesBase >= world.compactionThreshold

\* History: the calls in flight when a compact() starts ran beside it.
DuringCompact(cs) ==
    [j \in Handlers |-> [k \in DOMAIN cs[j] |->
        IF cs[j][k].pc \in {"done", "failed"} THEN cs[j][k]
        ELSE [cs[j][k] EXCEPT !.duringCompact = TRUE]]]

\* A compact() that appendChanges awaits: its error reaches the caller.
CatchCompaction_Rethrows(c) == [c EXCEPT !.pc = "failed", !.result = "compaction_error"]

\* this.compact().catch(e => console.error(...)): the error is logged and the
\* call that triggered the compaction is left as it was.
CatchCompaction(c) == c

\* A step of compact() that may have rejected it.
CompactSettles(i) ==
    calls' = IF km'[i].pc = "failed" /\ km'[i].trigger # 0
             THEN [calls EXCEPT ![i][km'[i].trigger] = CatchCompaction(@)]
             ELSE calls

\* --------------------------------------------------------- appendChanges
\* The batches a caller submits: one put, one delete, or a put of both documents.
PutDoc1 == <<[id |-> "doc1", del |-> FALSE]>>
PutBoth == <<[id |-> "doc1", del |-> FALSE], [id |-> "doc2", del |-> FALSE]>>

Batches == {<<[id |-> d, del |-> b]>> : d \in Docs, b \in BOOLEAN} \cup {PutBoth}

getNextSeq(i) == h[i].meta.seq + 1

\* api._bulkDocs: each entry gets seq getNextSeq() + its position and the
\* generation after the one the index holds for its id.
StampEntry(i, item, k, call) ==
    LET rev == [gen |-> h[i].index[item.id].rev.gen + 1, by |-> i, call |-> call]
    IN  [seq |-> getNextSeq(i) + (k - 1), id |-> item.id, rev |-> rev,
         deleted |-> item.del,
         doc |-> IF item.del THEN NoDoc ELSE [val |-> rev, rev |-> rev]]

BulkDocsChanges(i, batch, call) ==
    [k \in 1..Len(batch) |-> StampEntry(i, batch[k], k, call)]

\* A compact() of some handler is between its call and its return.
Compacting == \E j \in Insts : km[j].pc \notin {"idle", "done", "failed", "cleanup"}

\* History: another handler has committed an entry for an id of the batch
\* that handler i has no index entry for.
Unobserved(i, batch) ==
    \E k \in 1..Len(batch), c \in 1..Len(committed) :
        /\ committed[c].id = batch[k].id
        /\ committed[c].owner # i
        /\ h[i].index[batch[k].id].fileId = NoFile

NewCall(i, batch, changes) ==
    [pc |-> "write", changes |-> changes, attempt |-> 0,
     fileId |-> NoFile, nextMeta |-> EmptyMeta, expectedEtag |-> NoEtag,
     result |-> "pending", error |-> NoError,
     start |-> Stamp, duringCompact |-> Compacting, stale |-> Unobserved(i, batch)]

\* A caller calls appendChanges (api._bulkDocs).  Where every commit starts a
\* compaction the caller makes its next call when the handler's compaction and
\* calls have settled: one compact() per handler is in flight at a time.
AppendCall(i, batch) ==
    /\ Open
    /\ Ready(i)
    /\ i \in left.writers
    /\ batch \in left.batches
    /\ left.awaited => \A k \in DOMAIN calls[i] : calls[i][k].pc \in {"done", "failed"}
    /\ i \in left.single => calls[i] = <<>>
    /\ ShouldCompact =>
          /\ \A k \in DOMAIN calls[i] : calls[i][k].pc \in {"done", "failed"}
          /\ km[i].pc \in {"idle", "done", "failed"}
    /\ h[i].loaded
    /\ left.appends > 0
    /\ \A k \in 1..Len(batch) :
          batch[k].del => /\ h[i].index[batch[k].id].fileId # NoFile
                          /\ ~h[i].index[batch[k].id].deleted
    /\ left' = [left EXCEPT !.appends = @ - 1]
    /\ calls' = [calls EXCEPT ![i] =
                    Append(@, NewCall(i, batch, BulkDocsChanges(i, batch, Len(@) + 1)))]
    /\ UNCHANGED <<world, lru, feed, files, metaList, h, ld, km, committed, getRes>>

\* tryAppendChanges 1-2: writeChangeFile, then the speculative nextMeta and the
\* ETag this instance holds, as saveMeta receives them.
AppendWrite(i, k) ==
    LET c == calls[i][k]
        f == LogId(i, k, c.attempt)
    IN  /\ Ready(i)
        /\ c.pc = "write"
        /\ c.attempt < MAX_RETRIES
        /\ files' = CreateFile(f, "log", c.changes)
        /\ calls' = [calls EXCEPT ![i][k] =
              [c EXCEPT !.pc = "update", !.fileId = f,
                        !.nextMeta = [h[i].meta EXCEPT
                            !.changeLogIds = Append(@, f),
                            !.seq = c.changes[Len(c.changes)].seq],
                        !.expectedEtag = h[i].metaEtag]]
        /\ UNCHANGED <<world, lru, feed, metaList, h, ld, km, left, committed, getRes>>

\* An appendChanges that returns when its loop ends.
AppendGiveUp_Resolves(i, k) ==
    LET c == calls[i][k]
    IN  /\ Ready(i)
        /\ c.pc = "write"
        /\ c.attempt >= MAX_RETRIES
        /\ calls' = [calls EXCEPT ![i][k] = [c EXCEPT !.pc = "done", !.result = "ok"]]
        /\ UNCHANGED <<world, lru, feed, files, metaList, h, ld, km, left, committed, getRes>>

\* appendChanges: the loop ends after MAX_RETRIES attempts.
AppendGiveUp(i, k) ==
    LET c == calls[i][k]
    IN  /\ Ready(i)
        /\ c.pc = "write"
        /\ c.attempt >= MAX_RETRIES
        /\ calls' = [calls EXCEPT ![i][k] =
                        [c EXCEPT !.pc = "failed", !.result = "exhausted",
                                  !.error = ExhaustedError]]
        /\ UNCHANGED <<world, lru, feed, files, metaList, h, ld, km, left, committed, getRes>>

DocCacheAfter(cache, changes) ==
    [d \in Docs |->
        LET ks == {k \in 1..Len(changes) : changes[k].id = d}
        IN  IF ks = {} THEN cache[d] ELSE changes[Max(ks)].doc]

CommitRecords(i, c) ==
    [k \in 1..Len(c.changes) |->
        [seq |-> c.changes[k].seq, id |-> c.changes[k].id, rev |-> c.changes[k].rev,
         deleted |-> c.changes[k].deleted, file |-> c.fileId, owner |-> i]]

\* tryAppendChanges 3-4 on success: this.meta, the index and the doc cache.
AppendCommitted(i, c, etag) ==
    [h[i] EXCEPT !.metaEtag = ClientEtag(etag),
                 !.metaModifiedTime = ObservedTime(etag.version),
                 !.meta = c.nextMeta,
                 !.index = ApplyChanges(@, c.changes, c.fileId),
                 !.docCache = DocCacheAfter(@, c.changes)]

\* The catch of appendChanges on 412/409: await this.load().
AwaitLoad(i, k) ==
    /\ calls' = [calls EXCEPT ![i][k].pc = "awaitLoad"]
    /\ CallLoad(i, h[i], FALSE, FALSE)

\* A catch that takes every error of the store for a conflict.
Retryable_Any(status) == status # 200

\* The catch of appendChanges: err.status === 412 || err.status === 409
Retryable(status) == status \in {412, 409}

\* The catch of appendChanges on an error of tryAppendChanges.
AppendCatch(i, k, status) ==
    IF Retryable(status)
    THEN AwaitLoad(i, k)
    ELSE /\ calls' = [calls EXCEPT ![i][k] =
                        [@ EXCEPT !.pc = "failed", !.result = "error",
                                  !.error = ClientError(status)]]
         /\ UNCHANGED <<h, ld>>

\* saveMeta(nextMeta, this.metaEtag): findFile, then updateFile with If-Match
\* (or createFile), and what follows it.  Once a _meta.json exists findFile
\* answers the same object whenever it is asked (objects named _meta.json are
\* never deleted and the list keeps its order), so the listing is taken here.
\* After the commit the compaction check starts compact() and does not await it.
AppendUpdate(i, k) ==
    LET c == calls[i][k]
        metaFile == FindFile
        doc == MetaObject(c.nextMeta)
        status == IF metaFile = NoFile THEN 200
                  ELSE UpdateStatus(metaFile, c.expectedEtag)
        etag == IF metaFile = NoFile THEN Etag(MetaId(i), 1) ELSE NextEtag(metaFile)
        hi == AppendCommitted(i, c, etag)
        done == [calls EXCEPT ![i][k] = [c EXCEPT !.pc = "done", !.result = "ok"]]
    IN  /\ Ready(i)
        /\ c.pc = "update"
        /\ IF status = 200
           THEN /\ IF metaFile = NoFile
                   THEN /\ files' = CreateFile(MetaId(i), "meta", doc)
                        /\ metaList' = Append(metaList, MetaId(i))
                   ELSE /\ files' = UpdateFile(metaFile, doc)
                        /\ metaList' = metaList
                /\ h' = [h EXCEPT ![i] = hi]
                /\ committed' = committed \o CommitRecords(i, c)
                /\ IF ShouldCompact
                   THEN /\ km' = [km EXCEPT ![i] =
                                BeginCompact(i, hi,
                                    [Stamp EXCEPT !.since = Len(committed) + Len(c.changes)],
                                    k)]
                        /\ calls' = DuringCompact(done)
                   ELSE /\ km' = km
                        /\ calls' = done
                /\ UNCHANGED ld
           ELSE /\ AppendCatch(i, k, status)
                /\ UNCHANGED <<files, metaList, committed, km>>
        /\ UNCHANGED <<world, lru, feed, left, getRes>>

\* writeChangeFile's createFile is rejected by the store.
AppendWriteFails(i, k, status) ==
    /\ Ready(i)
    /\ calls[i][k].pc = "write"
    /\ calls[i][k].attempt < MAX_RETRIES
    /\ left.faults > 0
    /\ left' = [left EXCEPT !.faults = @ - 1]
    /\ AppendCatch(i, k, status)
    /\ UNCHANGED <<world, lru, feed, files, metaList, km, committed, getRes>>

\* saveMeta's findFile or updateFile is rejected by the store.
AppendUpdateFails(i, k, status) ==
    /\ Ready(i)
    /\ calls[i][k].pc = "update"
    /\ left.faults > 0
    /\ left' = [left EXCEPT !.faults = @ - 1]
    /\ AppendCatch(i, k, status)
    /\ UNCHANGED <<world, lru, feed, files, metaList, km, committed, getRes>>

\* checkConflicts: the pending entries an index entry of an equal or higher
\* generation makes stale.
StaleEntries(index, changes) ==
    {k \in 1..Len(changes) :
        /\ index[changes[k].id].fileId # NoFile
        /\ index[changes[k].id].rev.gen >= changes[k].rev.gen}

\* A conflict check that lets every batch pass.
checkConflicts_Never(index, changes) == TRUE

checkConflicts(index, changes) == StaleEntries(index, changes) = {}

\* A retry that keeps the sequence numbers of the first attempt.
Reseq_Keep(meta, changes) == changes

\* "Reseq": contiguous numbers after this.meta.seq
Reseq(meta, changes) ==
    [k \in 1..Len(changes) |-> [changes[k] EXCEPT !.seq = meta.seq + k]]

\* The catch of appendChanges after load() resolved.
AppendAfterLoad(i, k) ==
    LET c == calls[i][k]
    IN  /\ c.pc = "loaded"
        /\ calls' = [calls EXCEPT ![i][k] =
              IF checkConflicts(h[i].index, c.changes)
              THEN [c EXCEPT !.pc = "write", !.attempt = @ + 1,
                             !.changes = Reseq(h[i].meta, c.changes)]
              ELSE [c EXCEPT !.pc = "failed", !.result = "conflict",
                             !.error = ConflictError]]
        /\ UNCHANGED <<world, lru, feed, files, metaList, h, ld, km, left, committed, getRes>>


\* ---------------------------------------------------------------- compact()
\* A caller calls compact().
CompactCall(i) ==
    /\ Open
    /\ Ready(i)
    /\ h[i].loaded
    /\ km[i].pc \in {"idle", "done", "failed"}
    /\ i \in left.compactors
    /\ left.compacts > 0
    /\ left' = [left EXCEPT !.compacts = @ - 1]
    /\ km' = [km EXCEPT ![i] = BeginCompact(i, h[i], Stamp, 0)]
    /\ calls' = DuringCompact(calls)
    /\ UNCHANGED <<world, lru, feed, files, metaList, h, ld, committed, getRes>>

\* getMulti: one fetchFile per object; a failed fetch leaves its docs null.
CompactFetch(i) ==
    /\ Ready(i)
    /\ km[i].pc = "fetch"
    /\ LET k == km[i]
           f == Head(k.toFetch)
           r == FetchFile(h[i].fileCache, f)
           got == [d \in Docs |->
                     IF k.byFile[d] = f /\ r.ok /\ DocInContent(r.content, d) # NoDoc
                     THEN [DocInContent(r.content, d) EXCEPT
                             !.rev = IF h[i].index[d].fileId # NoFile
                                     THEN h[i].index[d].rev ELSE @]
                     ELSE NoDoc]
       IN  /\ h' = [h EXCEPT ![i].fileCache = r.cache,
                             ![i].docCache = [d \in Docs |->
                                 IF got[d] # NoDoc THEN got[d] ELSE @[d]]]
           /\ km' = [km EXCEPT ![i].toFetch = Tail(@),
                               ![i].byFile = IF Tail(k.toFetch) = <<>>
                                             THEN IdleCompact.byFile ELSE @,
                               ![i].results = [d \in Docs |->
                                   IF got[d] # NoDoc THEN got[d] ELSE @[d]],
                               ![i].pc = IF Tail(k.toFetch) = <<>> THEN "data" ELSE "fetch"]
    /\ UNCHANGED <<world, lru, feed, files, metaList, ld, calls, left, committed, getRes>>

\* getMulti: the store rejects the getFile of one object; the catch leaves the
\* documents of that object null.
CompactFetchFails(i) ==
    /\ Ready(i)
    /\ km[i].pc = "fetch"
    /\ left.faults > 0
    /\ Head(km[i].toFetch) \notin DOMAIN h[i].fileCache
    /\ left' = [left EXCEPT !.faults = @ - 1]
    /\ km' = [km EXCEPT ![i].toFetch = Tail(@),
                        ![i].byFile = IF Tail(km[i].toFetch) = <<>>
                                      THEN IdleCompact.byFile ELSE @,
                        ![i].pc = IF Tail(km[i].toFetch) = <<>> THEN "data" ELSE "fetch"]
    /\ UNCHANGED <<world, lru, feed, files, metaList, h, ld, calls, committed, getRes>>

\* createFile(snapshot-data), then the new index entries from this.index; an id
\* gone from this.index by then throws.
CompactData(i) ==
    /\ Ready(i)
    /\ km[i].pc = "data"
    /\ LET k == km[i]
           f == DataId(i, k.n)
           inData == {d \in Docs : k.results[d] # NoDoc}
       IN  /\ files' = CreateFile(f, "sdata", [kind |-> "sdata", docs |-> k.results])
           /\ km' = [km EXCEPT ![i] =
                 IF \E d \in inData : h[i].index[d].fileId = NoFile
                 THEN [k EXCEPT !.pc = "failed", !.dataFileId = f,
                                !.results = EmptyDocs, !.allIds = {}]
                 ELSE [k EXCEPT !.pc = "index", !.dataFileId = f,
                         !.results = EmptyDocs,
                         !.entries = [d \in Docs |->
                             IF d \in inData
                             THEN [rev |-> h[i].index[d].rev, seq |-> h[i].index[d].seq,
                                   deleted |-> FALSE, fileId |-> f]
                             ELSE NoEntry]]]
    /\ UNCHANGED <<world, lru, feed, metaList, h, ld, left, committed, getRes>>
    /\ CompactSettles(i)

\* createFile(snapshot-index)
CompactIndex(i) ==
    /\ Ready(i)
    /\ km[i].pc = "index"
    /\ files' = CreateFile(IndexId(i, km[i].n), "sidx",
                           [kind |-> "sidx", entries |-> km[i].entries,
                            seq |-> km[i].snapshotSeq])
    /\ km' = [km EXCEPT ![i].pc = "kfind", ![i].newIndexId = IndexId(i, km[i].n),
                        ![i].entries = EmptyIndex, ![i].allIds = {}]
    /\ UNCHANGED <<world, lru, feed, metaList, h, ld, calls, left, committed, getRes>>

\* atomicUpdateMeta: findFile('_meta.json') of one attempt
CompactFind(i) ==
    /\ Ready(i)
    /\ km[i].pc = "kfind"
    /\ km[i].attempt < MAX_RETRIES
    /\ km' = [km EXCEPT ![i] =
                IF FindFile = NoFile THEN [@ EXCEPT !.pc = "failed"]
                ELSE [@ EXCEPT !.pc = "kmeta", !.metaFile = FindFile,
                               !.etag = ClientEtag(files[FindFile].etag)]]
    /\ UNCHANGED <<world, lru, feed, files, metaList, h, ld, left, committed, getRes>>
    /\ CompactSettles(i)

\* The obsolete objects, in the order cleanupOldFiles deletes them.
Obsolete(k) ==
    (IF k.oldIndexId # NoFile THEN <<k.oldIndexId>> ELSE <<>>) \o k.oldLogIds

\* A compact() that returns without calling cleanupOldFiles.
StartCleanup_NoCleanup(k) == [k EXCEPT !.pc = "done", !.toDelete = <<>>]

\* compact() step 5 and its return: cleanupOldFiles runs on unawaited.
StartCleanup(k) ==
    [k EXCEPT !.pc = IF Obsolete(k) = <<>> THEN "done" ELSE "cleanup",
              !.toDelete = Obsolete(k)]

\* atomicUpdateMeta: the loop ends after MAX_RETRIES attempts and returns.
CompactExhausted(i) ==
    /\ Ready(i)
    /\ km[i].pc = "kfind"
    /\ km[i].attempt >= MAX_RETRIES
    /\ km' = [km EXCEPT ![i] = StartCleanup(@)]
    /\ UNCHANGED <<world, lru, feed, files, metaList, h, ld, calls, left, committed, getRes>>

\* The modifier compact() hands to atomicUpdateMeta.
SwapMeta(latest, oldLogIds, newIndexId) ==
    [latest EXCEPT
        !.changeLogIds = SelectSeq(@, LAMBDA f : f \notin Range(oldLogIds)),
        !.snapshotIndexId = newIndexId]

\* atomicUpdateMeta: downloadJson(metaFile.id) and the modifier
CompactMeta(i) ==
    /\ Ready(i)
    /\ km[i].pc = "kmeta"
    /\ LET r == FetchFile(h[i].fileCache, km[i].metaFile)
       IN  /\ h' = [h EXCEPT ![i].fileCache = r.cache]
           /\ km' = [km EXCEPT ![i] =
                 IF r.ok
                 THEN [@ EXCEPT !.pc = "kupdate",
                          !.newMeta = SwapMeta(r.content.meta, km[i].oldLogIds,
                                              km[i].newIndexId)]
                 ELSE [@ EXCEPT !.pc = "failed"]]
    /\ UNCHANGED <<world, lru, feed, files, metaList, ld, left, committed, getRes>>
    /\ CompactSettles(i)

\* saveMeta(newMeta, metaFile.etag): findFile (see AppendUpdate), updateFile
\* with If-Match, then this.meta = newMeta
CompactUpdate(i) ==
    /\ Ready(i)
    /\ km[i].pc = "kupdate"
    /\ LET k == km[i]
           metaFile == FindFile
           status == UpdateStatus(metaFile, k.etag)
       IN  IF status = 200
           THEN /\ files' = UpdateFile(metaFile, MetaObject(k.newMeta))
                /\ h' = [h EXCEPT ![i].metaEtag = ClientEtag(NextEtag(metaFile)),
                                  ![i].metaModifiedTime = ObservedTime(NextEtag(metaFile).version),
                                  ![i].meta = k.newMeta]
                /\ km' = [km EXCEPT ![i] = StartCleanup([k EXCEPT !.swapped = TRUE])]
           ELSE IF status = 412
           THEN /\ km' = [km EXCEPT ![i].pc = "kfind", ![i].attempt = @ + 1]
                /\ UNCHANGED <<files, h>>
           ELSE /\ km' = [km EXCEPT ![i].pc = "failed"]
                /\ UNCHANGED <<files, h>>
    /\ UNCHANGED <<world, lru, feed, metaList, ld, left, committed, getRes>>
    /\ CompactSettles(i)

\* createFile of the snapshot data or of the snapshot index is rejected by the
\* store: compact() rejects.
CompactCreateFails(i) ==
    /\ Ready(i)
    /\ km[i].pc \in {"data", "index"}
    /\ left.faults > 0
    /\ left' = [left EXCEPT !.faults = @ - 1]
    /\ km' = [km EXCEPT ![i].pc = "failed", ![i].results = EmptyDocs,
                        ![i].entries = EmptyIndex, ![i].allIds = {}]
    /\ CompactSettles(i)
    /\ UNCHANGED <<world, lru, feed, files, metaList, h, ld, committed, getRes>>

\* cleanupOldFiles: one deleteFile, its failure swallowed
CompactDelete(i) ==
    /\ km[i].pc = "cleanup"
    /\ files' = DeleteFile(Head(km[i].toDelete))
    /\ km' = [km EXCEPT ![i].toDelete = Tail(@),
                        ![i].pc = IF Tail(km[i].toDelete) = <<>> THEN "done" ELSE "cleanup"]
    /\ UNCHANGED <<world, lru, feed, metaList, h, ld, calls, left, committed, getRes>>

\* -------------------------------------------------------------------- get()
\* What get takes for id out of a fetched object.
GetInContent(content, d) ==
    IF content.kind \in {"array", "sdata"} THEN DocInContent(content, d)
    ELSE IF content.kind = "entry" /\ content.entry.id = d THEN content.entry.doc
    ELSE NoDoc

\* History: who asked for what, after which load().
GetBy(i, d) ==
    [NoGet EXCEPT !.by = i, !.id = d, !.lastLoad = h[i].lastLoad,
                  !.loadStart = h[i].loadStart, !.entry = h[i].index[d]]

\* A get() that does not look at the deleted flag.
Hidden_NoDeletedCheck(entry) == entry.fileId = NoFile

\* if (!entry) return null; if (entry.deleted) return null
Hidden(entry) == entry.fileId = NoFile \/ entry.deleted

Get(i, d) ==
    /\ i \in Insts => Open
    /\ Ready(i)
    /\ h[i].loaded
    /\ i \in left.readers
    /\ left.gets > 0
    /\ left' = [left EXCEPT !.gets = @ - 1]
    /\ LET entry == h[i].index[d]
           r == FetchFile(h[i].fileCache, entry.fileId)
           doc == IF r.ok THEN GetInContent(r.content, d) ELSE NoDoc
           out == IF doc # NoDoc THEN [doc EXCEPT !.rev = entry.rev] ELSE NoDoc
       IN  IF Hidden(entry)
           THEN /\ getRes' = [GetBy(i, d) EXCEPT !.from = "index"]
                /\ UNCHANGED h
           ELSE IF h[i].docCache[d] # NoDoc
           THEN /\ getRes' = [GetBy(i, d) EXCEPT !.doc = h[i].docCache[d],
                                                !.found = TRUE, !.from = "docCache"]
                /\ UNCHANGED h
           ELSE /\ getRes' = [GetBy(i, d) EXCEPT
                                !.doc = out, !.found = out # NoDoc,
                                !.from = IF r.ok THEN "file" ELSE "error",
                                !.file = entry.fileId,
                                !.remote = entry.fileId \notin DOMAIN h[i].fileCache]
                /\ h' = [h EXCEPT ![i].fileCache = r.cache,
                                  ![i].docCache[d] = IF out # NoDoc THEN out ELSE @]
    /\ UNCHANGED <<world, lru, feed, files, metaList, ld, km, calls, committed>>

\* ------------------------------------------------------------ specification
\* nativeForOf: the build iterates with the engine's for-of (ES2015 and later
\* targets) rather than with an index loop (ES5 target).
\* ------------------------------------------------------ adapter: _changes
\* limit when opts.limit is no number: Infinity, more than any index holds.
NoLimit == Cardinality(Docs) + 1

\* getIndexKeys(): Object.keys(this.index)
GetIndexKeys(index) == SelectSeq(DocOrder, LAMBDA d : index[d] # NoEntry)

\* A scan that takes no entry for seen.
Seen_Never(entry, since) == FALSE

\* entry.seq <= since
Seen(entry, since) == entry.seq <= since

\* The loop of processChangesAsync over the keys left, without include_docs:
\* acc holds results, processed and lastSeq.
RECURSIVE ProcessChanges(_, _, _, _, _)
ProcessChanges(index, keys, since, limit, acc) ==
    IF keys = <<>> \/ acc.processed >= limit THEN acc
    ELSE LET id == Head(keys)
             entry == index[id]
         IN  IF entry = NoEntry \/ Seen(entry, since)
             THEN ProcessChanges(index, Tail(keys), since, limit, acc)
             ELSE ProcessChanges(index, Tail(keys), since, limit,
                     [results |-> Append(acc.results,
                                    [id |-> id, seq |-> entry.seq, rev |-> entry.rev]),
                      processed |-> acc.processed + 1,
                      lastSeq |-> IF entry.seq > acc.lastSeq THEN entry.seq
                                  ELSE acc.lastSeq])

\* opts.complete is called at the end of the scan of a feed that is not live.
Completes(live) == ~live

\* api._changes({since, limit, live, complete}) on the adapter of handler i: a
\* live feed registers its listener, the scan runs in the next microtask.
\* complete: how often opts.complete was called, and results and last_seq as
\* it received them.  index: history, the index the scan read.
Changes(i, since, limit, live) ==
    LET acc == ProcessChanges(h[i].index, GetIndexKeys(h[i].index), since, limit,
                              [results |-> <<>>, processed |-> 0, lastSeq |-> since])
    IN  /\ i \in left.readers
        /\ h[i].loaded
        /\ left.feeds > 0
        /\ left' = [left EXCEPT !.feeds = @ - 1]
        /\ h' = IF live THEN [h EXCEPT ![i].listeners = Append(@, "liveListener")]
                ELSE h
        /\ feed' = [by |-> i, since |-> since, limit |-> limit, live |-> live,
                    index |-> h[i].index,
                    complete |-> IF Completes(live) THEN 1 ELSE 0,
                    results |-> IF Completes(live) THEN acc.results ELSE <<>>,
                    last_seq |-> IF Completes(live) THEN acc.lastSeq ELSE 0]
        /\ UNCHANGED <<world, lru, files, metaList, ld, km, calls, committed, getRes>>

\* db.get(id) as the feed awaits it: [ok, doc, h], the body (or null) and the
\* handler with its caches after the call; ok is false when the read of the
\* object fails and get rejects.
GetOutcome(hi, d) ==
    LET entry == hi.index[d]
        r == FetchFile(hi.fileCache, entry.fileId)
        doc == IF r.ok THEN GetInContent(r.content, d) ELSE NoDoc
        out == IF doc # NoDoc THEN [doc EXCEPT !.rev = entry.rev] ELSE NoDoc
    IN  IF Hidden(entry) THEN [ok |-> TRUE, doc |-> NoDoc, h |-> hi]
        ELSE IF hi.docCache[d] # NoDoc
        THEN [ok |-> TRUE, doc |-> hi.docCache[d], h |-> hi]
        ELSE [ok |-> r.ok, doc |-> out,
              h |-> [hi EXCEPT !.fileCache = r.cache,
                               !.docCache[d] = IF out # NoDoc THEN out ELSE @]]

\* The keys left from the first one whose entry the scan takes.
RECURSIVE NextKeys(_, _, _)
NextKeys(index, keys, since) ==
    IF keys = <<>> THEN <<>>
    ELSE IF index[Head(keys)] = NoEntry \/ Seen(index[Head(keys)], since)
    THEN NextKeys(index, Tail(keys), since)
    ELSE keys

\* processChangesAsync with include_docs, from the top of its loop to its
\* next await, db.get(id), or to its end.  cancelled is the flag "complete"
\* of the code; complete and onChange count the calls of opts.complete and
\* opts.onChange, late those made after cancel() returned.
Resume(index, f) ==
    LET keys == NextKeys(index, f.keys, f.since)
    IN  IF f.cancelled \/ f.processed >= f.limit \/ keys = <<>>
        THEN [f EXCEPT !.pc = "end", !.keys = <<>>,
                       !.complete = IF ~f.cancelled /\ ~f.live THEN @ + 1 ELSE @]
        ELSE [f EXCEPT !.pc = "get", !.keys = Tail(keys),
                       !.change = [id |-> Head(keys), seq |-> index[Head(keys)].seq,
                                   rev |-> index[Head(keys)].rev]]

NoChange == [id |-> "none", seq |-> 0, rev |-> NoRev]

\* api._changes({since, limit, live, include_docs: true, onChange, complete})
\* up to its return: a live feed registers its listener, the scan is left to
\* nextTick.
ChangesDocs(i, since, limit, live) ==
    /\ i \in left.readers
    /\ h[i].loaded
    /\ left.feeds > 0
    /\ left' = [left EXCEPT !.feeds = @ - 1]
    /\ h' = IF live THEN [h EXCEPT ![i].listeners = Append(@, "liveListener")]
            ELSE h
    /\ feed' = [by |-> i, since |-> since, limit |-> limit, live |-> live,
                pc |-> "tick", keys |-> <<>>, change |-> NoChange,
                processed |-> 0, results |-> <<>>, lastSeq |-> since,
                cancelled |-> FALSE, complete |-> 0, onChange |-> 0, late |-> 0]
    /\ UNCHANGED <<world, lru, files, metaList, ld, km, calls, committed, getRes>>

\* nextTick: processChangesAsync starts.
FeedTick ==
    /\ feed.by # "none"
    /\ feed.pc = "tick"
    /\ feed' = Resume(h[feed.by].index,
                      [feed EXCEPT !.keys = GetIndexKeys(h[feed.by].index)])
    /\ UNCHANGED <<world, lru, files, metaList, h, ld, km, calls, left, committed, getRes>>

\* db.get(id) settles: the change goes to opts.onChange and into results and
\* the loop goes on; a rejection goes to opts.complete(err).
FeedGet ==
    /\ feed.by # "none"
    /\ feed.pc = "get"
    /\ Ready(feed.by)
    /\ LET i == feed.by
           g == GetOutcome(h[i], feed.change.id)
           late == IF feed.cancelled THEN 1 ELSE 0
       IN  /\ h' = [h EXCEPT ![i] = g.h]
           /\ feed' =
                IF g.ok
                THEN Resume(h[i].index,
                        [feed EXCEPT !.onChange = @ + 1, !.late = @ + late,
                                     !.results = Append(@, feed.change),
                                     !.processed = @ + 1,
                                     !.change = NoChange,
                                     !.lastSeq = IF feed.change.seq > @
                                                 THEN feed.change.seq ELSE @])
                ELSE [feed EXCEPT !.pc = "end", !.keys = <<>>, !.change = NoChange,
                                  !.complete = @ + 1, !.late = @ + late]
    /\ UNCHANGED <<world, lru, files, metaList, ld, km, calls, left, committed, getRes>>

\* cancel() of the feed
FeedCancel ==
    /\ feed.by # "none"
    /\ ~feed.cancelled
    /\ feed' = [feed EXCEPT !.cancelled = TRUE]
    /\ h' = [h EXCEPT ![feed.by].listeners =
                        SelectSeq(@, LAMBDA l : l # "liveListener")]
    /\ UNCHANGED <<world, lru, files, metaList, ld, km, calls, left, committed, getRes>>

\* etags: the store client returns the store's ETags (the client of
\* tests/concurrency_mock.test.ts) rather than none (GoogleDriveClient, whose
\* requests ask for id, name, mimeType, parents and modifiedTime only).
\* compactionThreshold: options.compactionThreshold || DEFAULT_COMPACTION_THRESHOLD.
\* pollingIntervalMs: the handlers are constructed with options.pollingIntervalMs.
Worlds ==
    [etags : BOOLEAN, nativeForOf : BOOLEAN,
     compactionThreshold : {DEFAULT_COMPACTION_THRESHOLD},
     pollingIntervalMs : {FALSE}]

Budget(loads, appends, compacts, gets) ==
    [loads |-> loads, appends |-> appends, compacts |-> compacts, gets |-> gets,
     writers |-> Insts, batches |-> Batches, awaited |-> FALSE,
     single |-> {}, faults |-> 0,
     loaders |-> Insts, compactors |-> Insts, readers |-> Handlers,
     polls |-> 0, stops |-> 0, listens |-> 0, unsubs |-> 0, subscribed |-> {},
     feeds |-> 0]

\* What the callers do in one run: concurrent writers that reload, writers
\* beside a compaction, and a write, a compaction, a reload and a read.
Workloads ==
    {Budget(MaxLoads, MaxAppends, 0, 0),
     Budget(0, MaxAppends, MaxCompacts, 0),
     Budget(MaxLoads, MaxAppends - 1, MaxCompacts, MaxGets)}

\* The folder after "await h1.load(); await h2.load()" on the empty folder: h1
\* created _meta.json, h2 downloaded it (and holds it in its file cache).
LoadedHandler(cached) ==
    [InitHandler EXCEPT
        !.loaded = TRUE, !.lastLoad = "ok",
        !.metaEtag = ClientEtag(Etag(MetaId("h1"), 1)),
        !.metaModifiedTime = ObservedTime(1),
        !.pollingInterval = IF world.pollingIntervalMs THEN "set" ELSE "none",
        !.fileCache = IF cached THEN MetaId("h1") :> MetaObject(EmptyMeta) ELSE <<>>,
        !.loadFiles = IF cached
                      THEN MetaId("h1") :> NewObject(MetaId("h1"), "meta", MetaObject(EmptyMeta))
                      ELSE <<>>]

InitIn(worlds, workloads) ==
    /\ world \in worlds
    /\ files = MetaId("h1") :> NewObject(MetaId("h1"), "meta", MetaObject(EmptyMeta))
    /\ metaList = <<MetaId("h1")>>
    /\ h = [i \in Handlers |->
                IF i = Fresh THEN InitHandler ELSE LoadedHandler(i = "h2")]
    /\ ld = [i \in Handlers |-> IdleLoad]
    /\ km = [i \in Handlers |-> IdleCompact]
    /\ calls = [i \in Handlers |-> <<>>]
    /\ committed = <<>>
    /\ getRes = NoGet
    /\ lru = NoCache
    /\ feed = NoFeed
    /\ left \in workloads

InitWith(workloads) == InitIn(Worlds, workloads)

InitLoaded == InitWith(Workloads)

LoadCalls == \E i \in Insts : LoadCall(i)

LoadSteps ==
    \/ \E i \in Handlers : LoadFind(i)
    \/ \E i \in Handlers : LoadMeta(i)
    \/ \E i \in Handlers : LoadLog(i)

SnapshotSteps == \E i \in Handlers : LoadSnapshot(i)

FirstLoadNext ==
    \/ \E i \in Insts : LoadSaveFind(i)
    \/ \E i \in Insts : LoadSaveWrite(i)

AppendNext ==
    \/ \E i \in Insts, b \in Batches : AppendCall(i, b)
    \/ \E i \in Insts : \E k \in DOMAIN calls[i] : AppendWrite(i, k)
    \/ \E i \in Insts : \E k \in DOMAIN calls[i] : AppendUpdate(i, k)
    \/ \E i \in Insts : \E k \in DOMAIN calls[i] : AppendAfterLoad(i, k)

FetchSteps == \E i \in Insts : CompactFetch(i)

CompactSteps ==
    \/ \E i \in Insts : CompactData(i)
    \/ \E i \in Insts : CompactIndex(i)
    \/ \E i \in Insts : CompactFind(i)
    \/ \E i \in Insts : CompactMeta(i)
    \/ \E i \in Insts : CompactUpdate(i)

CompactNext == (\E i \in Insts : CompactCall(i)) \/ CompactSteps

Cleanup == \E i \in Insts : CompactDelete(i)

GetNext == \E i \in Handlers, d \in Docs : Get(i, d)

\* Handlers that have loaded, their callers' workloads, and a fresh instance.
\* Within these workloads no call meets MAX_RETRIES conflicts, and a
\* _meta.json exists from the start: the steps left out are never enabled.
Next ==
    \/ LoadCalls \/ FreshLoad \/ LoadSteps \/ SnapshotSteps
    \/ AppendNext \/ CompactNext \/ FetchSteps \/ Cleanup \/ GetNext

Spec == InitLoaded /\ [][Next]_vars

\* The empty folder: the handlers' first load() calls and what follows them.
InitFresh ==
    /\ world \in Worlds
    /\ files = <<>>
    /\ metaList = <<>>
    /\ h = [i \in Handlers |-> InitHandler]
    /\ ld = [i \in Handlers |-> IdleLoad]
    /\ km = [i \in Handlers |-> IdleCompact]
    /\ calls = [i \in Handlers |-> <<>>]
    /\ committed = <<>>
    /\ getRes = NoGet
    /\ lru = NoCache
    /\ feed = NoFeed
    /\ left = Budget(Cardinality(Insts), MaxAppends, 0, 0)

NextFresh == LoadCalls \/ LoadSteps \/ FirstLoadNext \/ AppendNext

SpecFresh == InitFresh /\ [][NextFresh]_vars

\* One handler's caller writes one document again and again, awaiting each
\* call, while a compact() runs: enough commits for MAX_RETRIES conflicts.
\* The only handler with index entries is the writer, whose doc cache holds
\* what it wrote: getMulti has nothing to fetch.
RetryWorkload ==
    [Budget(0, MAX_RETRIES + 1, MaxCompacts, 0) EXCEPT
        !.writers = {"h1"}, !.awaited = TRUE,
        !.batches = {PutDoc1}]

InitRetry ==
    /\ InitWith({RetryWorkload})
    /\ world.etags

NextRetry ==
    \/ LoadSteps \/ SnapshotSteps \/ AppendNext \/ CompactNext \/ Cleanup
    \/ \E i \in Insts : CompactExhausted(i)

SpecRetry == InitRetry /\ [][NextRetry]_vars

\* One handler's caller writes, awaiting each call, beside two compactions,
\* the second of which finds the snapshot index of the first.  cleanupOldFiles
\* is a chain of promises the event loop keeps running: each of its deleteFile
\* calls is eventually made.
CleanupWorkload ==
    [Budget(0, MaxAppends, MaxCompacts + 1, 0) EXCEPT
        !.writers = {"h1"}, !.awaited = TRUE, !.batches = {PutBoth}]

InitCleanup == InitWith({CleanupWorkload})

NextCleanup ==
    \/ LoadSteps \/ SnapshotSteps \/ AppendNext \/ CompactNext \/ FetchSteps \/ Cleanup

SpecCleanup == InitCleanup /\ [][NextCleanup]_vars /\ WF_vars(Cleanup)

\* h2's caller writes two documents and compacts; h1, whose file cache is
\* empty, reloads and compacts in its turn, reading the snapshot data of h2;
\* the store rejects one read.
SnapshotWorkload ==
    [Budget(MaxLoads, MaxAppends - 1, MaxCompacts + 1, 0) EXCEPT
        !.writers = {"h2"}, !.awaited = TRUE, !.batches = {PutBoth},
        !.loaders = {"h1"}, !.faults = 1]

InitSnapshot == InitWith({SnapshotWorkload})

FetchFaults == \E i \in Insts : CompactFetchFails(i)

NextSnapshot ==
    \/ LoadCalls \/ LoadSteps \/ SnapshotSteps \/ AppendNext
    \/ CompactNext \/ FetchSteps \/ Cleanup \/ FetchFaults

SpecSnapshot == InitSnapshot /\ [][NextSnapshot]_vars

\* getMulti, first loop: null for an id without a live index entry, the doc
\* cache for a cached id, and the other ids grouped by the object they are in.
MultiByFile(hi, ids) ==
    [d \in Docs |->
        IF /\ d \in Range(ids)
           /\ hi.index[d].fileId # NoFile /\ ~hi.index[d].deleted
           /\ hi.docCache[d] = NoDoc
        THEN hi.index[d].fileId ELSE NoFile]

MultiCached(hi, ids) ==
    [d \in Docs |->
        IF /\ d \in Range(ids)
           /\ hi.index[d].fileId # NoFile /\ ~hi.index[d].deleted
        THEN hi.docCache[d] ELSE NoDoc]

\* getMulti, second loop: one fetchFile per object of byFile, in the order of
\* insertion; each document found gets the revision of its index entry and
\* goes into the doc cache.
RECURSIVE MultiFetch(_, _, _, _)
MultiFetch(hi, toFetch, byFile, results) ==
    IF toFetch = <<>> THEN [h |-> hi, results |-> results]
    ELSE LET f == Head(toFetch)
             r == FetchFile(hi.fileCache, f)
             got == [d \in Docs |->
                       IF byFile[d] = f /\ r.ok /\ DocInContent(r.content, d) # NoDoc
                       THEN [DocInContent(r.content, d) EXCEPT
                               !.rev = IF hi.index[d].fileId # NoFile
                                       THEN hi.index[d].rev ELSE @]
                       ELSE NoDoc]
             merged(old) == [d \in Docs |-> IF got[d] # NoDoc THEN got[d] ELSE old[d]]
         IN  MultiFetch([hi EXCEPT !.fileCache = r.cache, !.docCache = merged(@)],
                        Tail(toFetch), byFile, merged(results))

\* A getMulti that returns only the documents it found.
ResultsFor_Found(ids, results) ==
    LET all == [j \in 1..Len(ids) |-> results[ids[j]]]
    IN  SelectSeq(all, LAMBDA doc : doc # NoDoc)

\* return ids.map(id => results[id])
ResultsFor(ids, results) == [j \in 1..Len(ids) |-> results[ids[j]]]

MaxIds == 3
IdLists == UNION {[1..n -> Docs] : n \in 0..MaxIds}

\* getMulti(ids) of a caller, on the state of the store it finds.
GetMulti(i, ids) ==
    /\ Open
    /\ Ready(i)
    /\ h[i].loaded
    /\ left.gets > 0
    /\ left' = [left EXCEPT !.gets = @ - 1]
    /\ LET byFile == MultiByFile(h[i], ids)
           toFetch == FetchOrder(byFile, ids)
           out == MultiFetch(h[i], toFetch, byFile, MultiCached(h[i], ids))
       IN  /\ h' = [h EXCEPT ![i] = out.h]
           /\ getRes' = [by |-> i, ids |-> ids, byFile |-> byFile, fetched |-> toFetch,
                         results |-> ResultsFor(ids, out.results)]
    /\ UNCHANGED <<world, lru, feed, files, metaList, ld, km, calls, committed>>

\* Writers that reload on a conflict, then one getMulti.
MultiWorkload == [Budget(0, MaxAppends, 0, MaxGets) EXCEPT !.awaited = TRUE]

InitMulti == InitWith({MultiWorkload})

MultiNext == \E i \in Insts, ids \in IdLists : GetMulti(i, ids)

NextMulti == LoadSteps \/ AppendNext \/ MultiNext

SpecMulti == InitMulti /\ [][NextMulti]_vars

\* A handler configured with a compaction threshold the change count always
\* reaches: every commit starts a compaction, and the store rejects one request.
TriggerWorlds ==
    [etags : BOOLEAN, nativeForOf : BOOLEAN, compactionThreshold : {CountTotalChangesBase},
     pollingIntervalMs : {FALSE}]

TriggerWorkload == [Budget(0, MaxAppends, 0, 0) EXCEPT !.faults = 1]

InitTrigger == InitIn(TriggerWorlds, {TriggerWorkload})

CompactFaults == \E i \in Insts : CompactCreateFails(i)

NextTrigger ==
    \/ LoadSteps \/ SnapshotSteps \/ AppendNext
    \/ CompactSteps \/ FetchSteps \/ Cleanup \/ CompactFaults

SpecTrigger == InitTrigger /\ [][NextTrigger]_vars

\* The callers of load() call it again and again, also while a load is in
\* flight, beside a compaction and a writer of a one-line or a two-line log.
ReloadWorkload ==
    [Budget(MaxLoads + 1, MaxAppends - 1, MaxCompacts, 0) EXCEPT
        !.batches = {PutDoc1, PutBoth}]

InitReload == InitWith({ReloadWorkload})

NextReload ==
    \/ LoadCalls \/ LoadSteps \/ SnapshotSteps
    \/ AppendNext \/ CompactNext \/ FetchSteps \/ Cleanup

SpecReload == InitReload /\ [][NextReload]_vars

\* Writers that await their calls, and a reader.
GetWorkload == [Budget(0, MaxAppends, 0, MaxGets) EXCEPT !.awaited = TRUE]

InitGet == InitWith({GetWorkload})

NextGet == LoadSteps \/ AppendNext \/ GetNext

SpecGet == InitGet /\ [][NextGet]_vars

\* Writers of one document that await their calls; the one compacts, the
\* other reloads and reads.
ReadWorkload ==
    [Budget(MaxLoads, MaxAppends, MaxCompacts, MaxGets) EXCEPT
        !.awaited = TRUE, !.batches = {PutDoc1},
        !.loaders = {"h1"}, !.readers = {"h1"}, !.compactors = {"h2"}]

InitRead == InitWith({ReadWorkload})

NextRead ==
    \/ LoadCalls \/ LoadSteps \/ SnapshotSteps
    \/ AppendNext \/ CompactNext \/ Cleanup \/ GetNext

SpecRead == InitRead /\ [][NextRead]_vars

\* One handler's caller writes again and again, awaiting each call, while the
\* other handler makes one call: enough commits for MAX_RETRIES conflicts.
\* The store client returns ETags: without them no write meets a conflict.
ExhaustWorkload ==
    [Budget(0, MAX_RETRIES + 1, 0, 0) EXCEPT
        !.awaited = TRUE, !.single = {"h2"}, !.batches = {PutDoc1}]

InitExhaust ==
    /\ InitWith({ExhaustWorkload})
    /\ world.etags

GiveUp == \E i \in Insts : \E k \in DOMAIN calls[i] : AppendGiveUp(i, k)

NextExhaust == LoadSteps \/ AppendNext \/ GiveUp

SpecExhaust == InitExhaust /\ [][NextExhaust]_vars

\* Concurrent writers; the store rejects one request of an appendChanges with
\* an error that is no precondition failure.
FaultWorkload == [Budget(0, MaxAppends, 0, 0) EXCEPT !.faults = 1]

InitFault == InitWith({FaultWorkload})

AppendFaults ==
    \/ \E i \in Insts, status \in FaultStatuses :
          \E k \in DOMAIN calls[i] : AppendWriteFails(i, k, status)
    \/ \E i \in Insts, status \in FaultStatuses :
          \E k \in DOMAIN calls[i] : AppendUpdateFails(i, k, status)

NextFault == LoadSteps \/ AppendNext \/ AppendFaults

SpecFault == InitFault /\ [][NextFault]_vars

\* A writer, a compaction and a reload; the store fails one request of the
\* reload for a snapshot index or a change log.
LoadFaultWorkload ==
    [Budget(MaxLoads, MaxAppends - 1, MaxCompacts, 0) EXCEPT
        !.faults = 1, !.batches = {PutBoth}]

InitLoadFault == InitWith({LoadFaultWorkload})

LoadFaults ==
    \/ \E i \in Insts : LoadSnapshotFails(i)
    \/ \E i \in Insts : LoadLogFails(i)

NextLoadFault ==
    \/ LoadCalls \/ LoadSteps \/ SnapshotSteps \/ LoadFaults
    \/ AppendNext \/ CompactNext \/ FetchSteps \/ Cleanup

SpecLoadFault == InitLoadFault /\ [][NextLoadFault]_vars

\* Handlers constructed with pollingIntervalMs on GoogleDriveClient, whose
\* answers carry modifiedTime.  The caller of one handler registers listeners,
\* removes them, reloads and stops the polling while the other handler writes.
PollWorlds ==
    [etags : {FALSE}, nativeForOf : BOOLEAN,
     compactionThreshold : {DEFAULT_COMPACTION_THRESHOLD},
     pollingIntervalMs : {TRUE}]

MaxPolls == 2
MaxStops == 2
MaxListens == 2

PollWorkload ==
    [Budget(MaxLoads, MaxAppends - 1, 0, 0) EXCEPT
        !.writers = {"h2"}, !.loaders = {"h1"}, !.batches = {PutDoc1, PutBoth},
        !.polls = MaxPolls, !.stops = MaxStops,
        !.listens = MaxListens, !.unsubs = MaxListens]

InitPoll == InitIn(PollWorlds, {PollWorkload})

PollNext ==
    \/ \E i \in Insts : PollFire(i)
    \/ \E i \in Insts : PollFind(i)
    \/ \E i \in Insts : StopPolling(i)

ListenNext ==
    \/ \E i \in Insts, cb \in Callbacks : OnChange(i, cb)
    \/ \E i \in Insts, cb \in Callbacks : Unsubscribe(i, cb)

\* Without ETags no metadata write of appendChanges is refused.
AppendUnconditional ==
    \/ \E i \in Insts, b \in Batches : AppendCall(i, b)
    \/ \E i \in Insts : \E k \in DOMAIN calls[i] : AppendWrite(i, k)
    \/ \E i \in Insts : \E k \in DOMAIN calls[i] : AppendUpdate(i, k)

NextPoll == LoadCalls \/ LoadSteps \/ AppendUnconditional \/ PollNext \/ ListenNext

SpecPoll == InitPoll /\ [][NextPoll]_vars

\* The same callers, one of whom also registers a callback that throws.
ListenThrowing == \E i \in Insts, cb \in Throwing : OnChange(i, cb)

NextNotify == NextPoll \/ ListenThrowing

SpecNotify == InitPoll /\ [][NextNotify]_vars

\* An LRUCache of a capacity of at least 1 and the calls of its callers, with
\* more keys than it can hold and values that may be undefined.
MaxCapacity == 3
CacheKeys == {"doc1", "doc2", "doc3", "doc4"}
CacheValues == {"v1", "v2", Undefined}

InitCache ==
    /\ InitWith({Budget(0, 0, 0, 0)})
    /\ world = [etags |-> FALSE, nativeForOf |-> FALSE,
                compactionThreshold |-> DEFAULT_COMPACTION_THRESHOLD,
                pollingIntervalMs |-> FALSE]

CacheNew ==
    /\ lru = NoCache
    /\ \E capacity \in 1..MaxCapacity : lru' = NewCache(capacity)
    /\ UNCHANGED <<world, feed, files, metaList, h, ld, km, calls, left, committed, getRes>>

CacheGet ==
    /\ lru # NoCache
    /\ \E key \in CacheKeys :
          lru' = Recorded(LruGet(lru, key),
                          IF MapGet(lru.map, key) # Undefined
                          THEN Touch(lru.used, key) ELSE lru.used,
                          "get", key, MapGet(lru.map, key))
    /\ UNCHANGED <<world, feed, files, metaList, h, ld, km, calls, left, committed, getRes>>

CachePut ==
    /\ lru # NoCache
    /\ \E key \in CacheKeys, value \in CacheValues :
          lru' = Recorded(LruPut(lru, key, value), Touch(lru.used, key),
                          "put", key, value)
    /\ UNCHANGED <<world, feed, files, metaList, h, ld, km, calls, left, committed, getRes>>

CacheRemove ==
    /\ lru # NoCache
    /\ \E key \in CacheKeys :
          lru' = Recorded(LruRemove(lru, key), lru.used, "remove", key, Undefined)
    /\ UNCHANGED <<world, feed, files, metaList, h, ld, km, calls, left, committed, getRes>>

NextCache == CacheNew \/ CacheGet \/ CachePut \/ CacheRemove

SpecCache == InitCache /\ [][NextCache]_vars

\* Writers that await their calls, and the caller of _changes on the adapter
\* of one of them, with a since, with or without a limit, live or not.
ChangesWorkload ==
    [Budget(0, MaxAppends, 0, 0) EXCEPT !.awaited = TRUE, !.feeds = 1, !.readers = Insts]

InitChanges == InitWith({ChangesWorkload})

ChangesNext ==
    \E i \in Insts, since \in 0..MaxAppends, limit \in {1, NoLimit}, live \in BOOLEAN :
        Changes(i, since, limit, live)

NextChanges == LoadSteps \/ AppendNext \/ ChangesNext

SpecChanges == InitChanges /\ [][NextChanges]_vars

\* The same callers; the feed asks for the document bodies and is cancelled.
FeedNext ==
    \/ \E i \in Insts, since \in 0..MaxAppends, limit \in {1, NoLimit}, live \in BOOLEAN :
          ChangesDocs(i, since, limit, live)
    \/ FeedTick
    \/ FeedGet
    \/ FeedCancel

NextCancel == LoadSteps \/ AppendNext \/ FeedNext

SpecCancel == InitChanges /\ [][NextCancel]_vars

\* ------------------------------------------------------------ properties
\* The committed entries for document d, and those of the highest sequence.
CommittedFor(d) == {k \in 1..Len(committed) : committed[k].id = d}

Winners(d) ==
    {k \in CommittedFor(d) : \A j \in CommittedFor(d) : committed[k].seq >= committed[j].seq}

\* index holds for d what a committed entry of the highest sequence says.
IndexShows(index, d) ==
    \/ CommittedFor(d) = {}
    \/ \E k \in Winners(d) :
          IF committed[k].deleted
          THEN index[d].fileId = NoFile \/ index[d].deleted
          ELSE /\ index[d].fileId # NoFile
               /\ ~index[d].deleted
               /\ index[d].rev = committed[k].rev

\* C1: no committed write is lost: once the others are at rest, the index a
\* fresh instance's load() builds holds, for every document id, the revision
\* of the committed entry with the highest sequence for that id (deleted or
\* absent if that entry is a deletion).
C1_NoCommittedWriteLost ==
    h[Fresh].lastLoad = "ok" => \A d \in Docs : IndexShows(h[Fresh].index, d)

\* The calls made so far, as (handler, number) pairs.
AllCalls == UNION {{<<i, k>> : k \in DOMAIN calls[i]} : i \in Insts}
CallOf(ik) == calls[ik[1]][ik[2]]
IdsOf(c) == ChangedIds(c.changes)

\* Two calls of different handlers for disjoint ids, each made before the
\* other's commit: the only calls so far.
ConcurrentDisjoint(a, b) ==
    /\ AllCalls = {a, b}
    /\ a[1] # b[1]
    /\ IdsOf(CallOf(a)) \cap IdsOf(CallOf(b)) = {}
    /\ CallOf(a).start.since = 0
    /\ CallOf(b).start.since = 0

\* C2: when two independent instances call appendChanges concurrently for
\* disjoint ids, neither call fails, and a load() on either instance after both
\* have committed has both ids in its index with distinct sequence numbers and
\* a database seq equal to the number of committed entries.
C2_ConcurrentDisjointAppends ==
    \A a, b \in AllCalls :
        ConcurrentDisjoint(a, b) =>
            /\ CallOf(a).pc # "failed"
            /\ CallOf(b).pc # "failed"
            /\ \A i \in Insts :
                  (/\ CallOf(a).pc = "done"
                   /\ CallOf(b).pc = "done"
                   /\ h[i].loadStart.since = Len(committed)
                   /\ h[i].lastLoad \in {"ok", "error"})
                  => /\ h[i].lastLoad = "ok"
                     /\ \A d \in IdsOf(CallOf(a)) \cup IdsOf(CallOf(b)) :
                           h[i].index[d].fileId # NoFile
                     /\ \A d, e \in IdsOf(CallOf(a)) \cup IdsOf(CallOf(b)) :
                           d # e => h[i].index[d].seq # h[i].index[e].seq
                     /\ h[i].meta.seq = Len(committed)

\* C3: if compact() runs while an appendChanges is in flight, then after both
\* have completed a load() shows the appended document in the index at the
\* appended revision.
C3_CompactionKeepsAppend ==
    \A a \in AllCalls :
        (/\ AllCalls = {a}
         /\ CallOf(a).result = "ok"
         /\ CallOf(a).duringCompact
         /\ h[Fresh].lastLoad = "ok")
        => \A k \in 1..Len(CallOf(a).changes) :
              LET c == CallOf(a).changes[k]
              IN  /\ h[Fresh].index[c.id].fileId # NoFile
                  /\ h[Fresh].index[c.id].rev = c.rev

\* C4: if another instance has committed a revision of a document and this
\* instance, which has no index entry for the document, calls appendChanges
\* with a first revision of it, the call rejects with a conflict (409).
C4_StaleWriterConflicts ==
    \A a \in AllCalls :
        (CallOf(a).stale /\ CallOf(a).pc \in {"done", "failed"})
            => CallOf(a).result = "conflict"

\* The remote _meta.json and the entries it reaches.
RemoteMeta == files[FindFile].content.meta

ListedEntries ==
    {<<f, k>> \in Range(RemoteMeta.changeLogIds) \X (1..Cardinality(Docs)) :
        Live(f) /\ k \in DOMAIN files[f].content}

EntryAt(fk) == files[fk[1]].content[fk[2]]

\* C5: no two change entries of the log objects listed in _meta.json's
\* changeLogIds carry the same sequence number.
C5_UniqueSequences ==
    FindFile # NoFile =>
        \A x, y \in ListedEntries : x # y => EntryAt(x).seq # EntryAt(y).seq

\* The sequence numbers reachable from the remote _meta.json: those of the
\* listed logs' entries, of the snapshot index's entries and of the index itself.
ReachableSeqs ==
    LET sidx == RemoteMeta.snapshotIndexId
    IN  {EntryAt(x).seq : x \in ListedEntries}
        \cup (IF Live(sidx)
              THEN {files[sidx].content.seq}
                   \cup {files[sidx].content.entries[d].seq : d \in Docs}
              ELSE {})
        \cup {0}

\* C6: in every state of the remote store the seq of _meta.json equals the
\* highest sequence number reachable through its changeLogIds and the snapshot
\* index it points to (0 for an empty database).
C6_MetaSeqIsHighest ==
    FindFile # NoFile => RemoteMeta.seq = Max(ReachableSeqs)

\* The entry a call wrote for document d.
EntryFor(c, d) == c.changes[Max({k \in 1..Len(c.changes) : c.changes[k].id = d})]

\* One appendChanges has committed, then one compact() has swapped the
\* metadata and returned: no writer ran beside the compaction.
WrittenThenCompacted(a, j) ==
    /\ AllCalls = {a}
    /\ CallOf(a).result = "ok"
    /\ ~CallOf(a).duringCompact
    /\ km[j].swapped
    /\ km[j].start.since = Len(committed)
    /\ \A i \in Insts \ {j} : km[i].pc = "idle"

\* C8: with no concurrent writer, after documents have been appended and
\* compact() has completed, a load() followed by get(id) returns the body and
\* the revision that were appended.
C8_CompactRoundTrip ==
    \A a \in AllCalls, j \in Insts :
        (/\ WrittenThenCompacted(a, j)
         /\ getRes.id \in IdsOf(CallOf(a))
         /\ getRes.lastLoad = "ok"
         /\ getRes.loadStart.afterSwap
         /\ getRes.loadStart.since = Len(committed))
        => /\ getRes.found
           /\ getRes.doc.val = EntryFor(CallOf(a), getRes.id).doc.val
           /\ getRes.doc.rev = EntryFor(CallOf(a), getRes.id).rev

\* C7: a database folder never holds more than one _meta.json object, also
\* when two instances call load() concurrently on a folder that has none yet,
\* and a load() never replaces an existing _meta.json by its initial empty one.
C7_SingleMetaDocument ==
    /\ Len(metaList) <= 1
    /\ \A i \in Insts : ~h[i].overwrote

\* The objects the remote _meta.json references.
Referenced ==
    Range(RemoteMeta.changeLogIds) \cup ({RemoteMeta.snapshotIndexId} \ {NoFile})

\* C10: if compact() ends without having committed its metadata swap, no
\* object the remote _meta.json references (change log or snapshot index)
\* has been deleted.
C10_FailedCompactionKeepsObjects ==
    \A i \in Insts :
        (km[i].pc \in {"cleanup", "done", "failed"} /\ ~km[i].swapped)
            => \A f \in Referenced : Live(f)

\* The objects a compaction found when it started: the change logs of its
\* metadata and the previous snapshot index.
Superseded(k) == Range(k.oldLogIds) \cup ({k.oldIndexId} \ {NoFile})

\* C9: after compact() has committed its metadata swap, the log objects that
\* were in changeLogIds when it started and the previous snapshot index
\* eventually no longer exist in the store, and the MetaDocument it wrote
\* references none of them.
C9_CleanupCompletes ==
    \A i \in Insts :
        /\ [](km[i].swapped =>
                /\ Range(km[i].newMeta.changeLogIds) \cap Superseded(km[i]) = {}
                /\ km[i].newMeta.snapshotIndexId \notin Superseded(km[i]))
        /\ (km[i].swapped ~> \A f \in Superseded(km[i]) : ~Live(f))

\* A second compaction has swapped the metadata and its clean-up has removed
\* the change log and the snapshot index it found.
C9_Witness ==
    \E i \in Insts :
        /\ km[i].swapped
        /\ km[i].pc = "done"
        /\ km[i].oldLogIds # <<>>
        /\ km[i].oldIndexId # NoFile
        /\ \A f \in Superseded(km[i]) : f \in DOMAIN files /\ ~Live(f)

\* The attempt of call k of handler i that wrote c.fileId has committed.
HasCommitted(i, c) ==
    \E r \in 1..Len(committed) : committed[r].owner = i /\ committed[r].file = c.fileId

\* C11: an appendChanges call whose metadata commit succeeded resolves
\* successfully, also when the compaction it triggered fails: the error of the
\* compaction is not delivered to the caller of appendChanges.
C11_CompactionErrorNotDelivered ==
    \A i \in Insts : \A k \in DOMAIN calls[i] :
        HasCommitted(i, calls[i][k]) =>
            /\ calls[i][k].pc = "done"
            /\ calls[i][k].result = "ok"
            /\ calls[i][k].error = NoError

\* A compaction that a committed call started has failed.
C11_Witness ==
    \E i \in Insts :
        /\ km[i].pc = "failed"
        /\ km[i].trigger \in DOMAIN calls[i]
        /\ HasCommitted(i, calls[i][km[i].trigger])
        /\ calls[i][km[i].trigger].result = "ok"

\* A change entry for d with sequence number n has been written: to a change
\* log, or folded into a snapshot index.
EntryWritten(fs, d, n) ==
    \E f \in DOMAIN fs :
        \/ /\ fs[f].kind = "log"
           /\ \E k \in DOMAIN fs[f].content :
                 fs[f].content[k].id = d /\ fs[f].content[k].seq = n
        \/ /\ fs[f].kind = "sidx"
           /\ fs[f].content.entries[d].fileId # NoFile
           /\ fs[f].content.entries[d].seq = n

\* C12: for every document id, the sequence number of getIndexEntry(id) on one
\* instance never decreases from one observation to a later one (appends,
\* loads and polls, a load() in the middle of its replay included), and it
\* increases only when a newer change entry for that id has been applied.
C12_IndexSequenceMonotonic ==
    [][\A i \in Insts, d \in Docs :
          (h[i].index[d].fileId # NoFile /\ h'[i].index[d].fileId # NoFile)
              => /\ h'[i].index[d].seq >= h[i].index[d].seq
                 /\ h'[i].index[d].seq > h[i].index[d].seq
                       => EntryWritten(files', d, h'[i].index[d].seq)]_vars

\* C13: calling load() twice in a row on an instance, with no change of the
\* store in between, leaves the index after the second call identical to the
\* index after the first (keys, revisions, sequences, deleted flags and
\* locations): no step of the second load changes the index.
C13_LoadIdempotent ==
    [][\A i \in Insts :
          (ld[i].repeat /\ files = h[i].loadFiles /\ files' = files)
              => h'[i].index = h[i].index]_vars

\* A second load() in a row has resolved on an instance whose index the first
\* load() had filled from a change log.
C13_Witness ==
    \E i \in Insts :
        /\ h[i].repeated
        /\ h[i].processedLogIds # {}
        /\ \E d \in Docs : h[i].index[d].fileId # NoFile

\* C14: while a load() of an instance is in flight, a further load() call on
\* it starts no second load: it awaits the one in flight and settles with its
\* outcome (success, or the same error); a load() called after that one has
\* settled starts a new load.
C14_ConcurrentLoadsCollapse ==
    /\ [](\A i \in Insts : ld[i].running <= 1)
    /\ [][\A i \in Insts :
            /\ (left'.loads < left.loads /\ ld'[i] # ld[i]) =>
                  IF ld[i].pc # "idle"
                  THEN /\ ld'[i] = [ld[i] EXCEPT !.callers = @ + 1]
                       /\ h'[i] = h[i]
                  ELSE /\ ld'[i].pc = "find"
                       /\ ld'[i].running = 1
                       /\ ld'[i].callers = 1
            /\ (ld[i].callers > 0 /\ ld'[i].callers = 0) =>
                  /\ ld'[i].pc = "idle"
                  /\ h'[i].lastLoad \in {"ok", "error"}
            /\ \A k \in DOMAIN calls[i] :
                  (calls[i][k].pc = "awaitLoad" /\ calls'[i][k].pc # "awaitLoad") =>
                      /\ ld[i].pc # "idle" /\ ld'[i].pc = "idle"
                      /\ calls'[i][k].pc = "loaded" <=> h'[i].lastLoad = "ok"
                      /\ calls'[i][k].pc = "failed" <=> h'[i].lastLoad = "error"]_vars

\* Two callers of load() and an appendChanges that met a conflict await one load.
C14_Witness ==
    \E i \in Insts :
        /\ ld[i].running = 1
        /\ ld[i].callers = 2
        /\ \E k \in DOMAIN calls[i] : calls[i][k].pc = "awaitLoad"

\* C15: get(id) for an id whose index entry has deleted = true, and for an id
\* that is not in the index, returns null and asks the store for nothing,
\* whatever the document cache and the file cache hold.
C15_GetHiddenIsLocal ==
    (getRes.by # "none" /\ (getRes.entry.fileId = NoFile \/ getRes.entry.deleted))
        => /\ ~getRes.found
           /\ getRes.doc = NoDoc
           /\ ~getRes.remote

\* get(id) has answered for an id that the instance wrote and then deleted.
C15_Witness ==
    /\ getRes.by \in Insts
    /\ getRes.entry.fileId # NoFile
    /\ getRes.entry.deleted
    /\ ~getRes.found

\* C16: whenever get(id) returns a body (from the document cache or from a
\* fetched object, after any appends, loads and compactions), the body's _rev
\* is the revision of the instance's index entry for id, and the body is the
\* one that was written with that revision.
C16_GetMatchesIndex ==
    getRes.found =>
        /\ getRes.doc.rev = getRes.entry.rev
        /\ getRes.doc.val = getRes.entry.rev

\* The change logs a call has written: one per commit attempt.
LogsOf(i, k) == {f \in DOMAIN files : f.kind = "log" /\ f.inst = i /\ f.n = k}

\* C17: appendChanges makes at most MAX_RETRIES (5) commit attempts: when
\* every attempt's metadata write fails with a precondition conflict the call
\* ends by rejecting the whole batch; it never retries without bound and it
\* never resolves without having committed the batch.
C17_BoundedRetries ==
    \A i \in Insts : \A k \in DOMAIN calls[i] :
        LET c == calls[i][k]
        IN  /\ c.attempt <= MAX_RETRIES
            /\ Cardinality(LogsOf(i, k)) <= MAX_RETRIES
            /\ c.attempt = MAX_RETRIES => c.pc \in {"write", "failed"}
            /\ (c.attempt = MAX_RETRIES /\ c.pc = "write") => c.fileId \in LogsOf(i, k)
            /\ c.pc = "done" => (c.result = "ok" /\ HasCommitted(i, c))

\* A call has been rejected after MAX_RETRIES conflicts, having written
\* MAX_RETRIES change logs.
C17_Witness ==
    \E i \in Insts : \E k \in DOMAIN calls[i] :
        /\ calls[i][k].pc = "failed"
        /\ calls[i][k].error = ExhaustedError
        /\ calls[i][k].attempt = MAX_RETRIES
        /\ Cardinality(LogsOf(i, k)) = MAX_RETRIES

\* C18: an error of the log write or of the metadata write of appendChanges
\* that is no precondition conflict (a status other than 412 and 409) makes
\* appendChanges reject with that error at once: no reload, no further attempt.
C18_OtherErrorsPropagate ==
    [][\A i \in Insts : \A k \in DOMAIN calls[i] :
          /\ (left'.faults < left.faults /\ calls'[i][k] # calls[i][k]) =>
                /\ calls'[i][k].pc = "failed"
                /\ calls'[i][k].error \in {ClientError(status) : status \in FaultStatuses}
                /\ calls'[i][k].attempt = calls[i][k].attempt
                /\ ld'[i] = ld[i]
                /\ files' = files
          /\ calls[i][k].result = "error" =>
                /\ calls'[i][k] = calls[i][k]
                /\ {f \in DOMAIN files' : f.kind = "log" /\ f.inst = i /\ f.n = k}
                      = LogsOf(i, k)]_vars

\* A call that had met a conflict and tried again was rejected by the store
\* with another error.
C18_Witness ==
    \E i \in Insts : \E k \in DOMAIN calls[i] :
        /\ calls[i][k].pc = "failed"
        /\ calls[i][k].result = "error"
        /\ calls[i][k].fileId # NoFile
        /\ calls[i][k].attempt > 0

\* C19: when the conflict check that follows a reload finds a pending entry
\* stale, appendChanges rejects at once with the conflict error: it writes no
\* further log object and makes no further metadata update for the batch.
C19_StaleBatchRejectedAtOnce ==
    [][\A i \in Insts : \A k \in DOMAIN calls[i] :
          /\ (/\ calls[i][k].pc = "loaded"
              /\ StaleEntries(h[i].index, calls[i][k].changes) # {}
              /\ calls'[i][k].pc # "loaded") =>
                /\ calls'[i][k].pc = "failed"
                /\ calls'[i][k].error = ConflictError
                /\ calls'[i][k].attempt = calls[i][k].attempt
                /\ files' = files
          /\ calls[i][k].result = "conflict" =>
                /\ calls'[i][k] = calls[i][k]
                /\ {f \in DOMAIN files' : f.kind = "log" /\ f.inst = i /\ f.n = k}
                      = LogsOf(i, k)]_vars

\* A call was rejected with the conflict error after the reload that followed
\* its first attempt, having written one change log.
C19_Witness ==
    \E i \in Insts : \E k \in DOMAIN calls[i] :
        /\ calls[i][k].pc = "failed"
        /\ calls[i][k].error = ConflictError
        /\ calls[i][k].attempt = 0
        /\ Cardinality(LogsOf(i, k)) = 1

\* The error names document d.
Identifies(err, d) == d \in {err.name, err.message}

\* C20: the conflict error with which appendChanges rejects a stale batch
\* identifies the document id of the stale entry.
C20_ConflictNamesDocument ==
    \A i \in Insts : \A k \in DOMAIN calls[i] :
        calls[i][k].result = "conflict" =>
            \E d \in IdsOf(calls[i][k]) : Identifies(calls[i][k].error, d)

\* The documents with an entry in the snapshot index or change log f.
DocsOf(f) ==
    IF files[f].kind = "sidx"
    THEN {d \in Docs : files[f].content.entries[d] # NoEntry}
    ELSE ChangedIds(files[f].content)

\* C21: a load() that failed to read a snapshot index or a change log (no
\* answer, or a server error) does not resolve with an index that has no entry
\* for a document of that object.
C21_ReadFailureSurfaced ==
    \A i \in Insts :
        (h[i].lastLoad = "ok" /\ h[i].unread # NoFile) =>
            \A d \in DocsOf(h[i].unread) : h[i].index[d] # NoEntry

\* C22: once stopPolling() has been called on a handler, no poll fires on it
\* again, whether or not a poll was in flight at the call and whether or not
\* load() runs afterwards.
C22_NoPollAfterStop ==
    [][\A i \in Insts : h[i].stopped => ~(h[i].poll = "idle" /\ h'[i].poll = "find")]_vars

\* C23: a poll that finds the stamp of _meta.json equal to the one the handler
\* observed last ends without a load and without a notification; one that
\* finds it different calls load(), and the listeners are invoked when, and
\* only when, that load() has resolved, with id, revision and deleted flag of
\* every id in the index.
C23_PollLoadsThenNotifies ==
    [][\A i \in Insts :
          /\ (h[i].poll = "find" /\ h'[i].poll = "idle") =>
                IF FindFile # NoFile /\ ModifiedTime(FindFile) # h[i].metaModifiedTime
                THEN /\ ld'[i].pc # "idle"
                     /\ h'[i].isPollingActive
                     /\ h'[i].notified = h[i].notified
                ELSE /\ ld'[i] = ld[i]
                     /\ ~h'[i].isPollingActive
                     /\ h'[i].notified = h[i].notified
          /\ (PollAwaits(h[i]) /\ ld[i].pc # "idle" /\ ld'[i].pc = "idle") =>
                /\ ~h'[i].isPollingActive
                /\ IF h'[i].lastLoad = "ok"
                   THEN h'[i].notified =
                            [n |-> h[i].notified.n + 1,
                             changes |-> ChangesOf(h'[i].index),
                             invoked |-> h[i].listeners]
                   ELSE h'[i].notified = h[i].notified
          /\ h'[i].notified # h[i].notified =>
                /\ PollAwaits(h[i])
                /\ ld[i].pc # "idle" /\ ld'[i].pc = "idle"
                /\ h'[i].lastLoad = "ok"]_vars

\* A poll found a new stamp, its load() resolved and a listener was invoked
\* with a map that holds a document; and a poll found the stamp unchanged.
C23_Witness ==
    \E i \in Insts :
        /\ h[i].notified.n > 0
        /\ h[i].notified.invoked # <<>>
        /\ DOMAIN h[i].notified.changes # {}
        /\ left.polls = 0
        /\ ~h[i].isPollingActive
        /\ FindFile # NoFile /\ ModifiedTime(FindFile) = h[i].metaModifiedTime

\* C24: a callback registered more than once through onChange is invoked once
\* per notification.
C24_ListenerInvokedOnce ==
    \A i \in Insts : \A cb \in Callbacks :
        Cardinality({k \in DOMAIN h[i].notified.invoked :
                        h[i].notified.invoked[k] = cb}) <= 1

\* The change entries of the logs a MetaDocument lists: those not yet folded
\* into a snapshot.
RECURSIVE Unfolded(_)
Unfolded(logIds) ==
    IF logIds = <<>> THEN 0
    ELSE Len(files[Head(logIds)].content) + Unfolded(Tail(logIds))

\* The size load() estimates for one change entry, and the size threshold.
EntryBytes == 100
DEFAULT_SIZE_THRESHOLD == 1048576

\* C25: the commit of an appendChanges starts a compaction if and only if the
\* change entries not yet folded into a snapshot have reached
\* compactionThreshold or their estimated size compactionSizeThreshold.
C25_CompactionAtThreshold ==
    [][\A i \in Insts : \A k \in DOMAIN calls[i] :
          (calls[i][k].pc = "update" /\ calls'[i][k].pc = "done") =>
              LET n == Unfolded(h'[i].meta.changeLogIds)
              IN  (km'[i] # km[i] /\ km'[i].trigger = k) <=>
                      \/ n >= world.compactionThreshold
                      \/ n * EntryBytes >= DEFAULT_SIZE_THRESHOLD]_vars

\* C26: an LRUCache of capacity c >= 1 holds at most c entries, whatever
\* get, put and remove calls it has served.
C26_CacheBounded ==
    lru # NoCache => Len(lru.map) <= lru.capacity

\* A full cache whose last put evicted the least recently used key.
C26_Witness ==
    /\ lru # NoCache
    /\ Len(lru.map) = lru.capacity
    /\ lru.evicted # "none"
    /\ ~Has(lru.map, lru.evicted)

\* The ids whose index entry has a seq above since.
NewSince(index, since) == {d \in Docs : index[d] # NoEntry /\ index[d].seq > since}

C28_LiveFeedCompletes ==
    (feed.by # "none" /\ feed.live) => feed.complete >= 1

\* C29: every updateFile by which an appendChanges replaces an existing
\* _meta.json carries a precondition: the ETag the handler holds for it.
C29_CommitIsConditional ==
    [][\A i \in Insts : \A k \in DOMAIN calls[i] :
          (/\ calls[i][k].pc = "update"
           /\ FindFile # NoFile
           /\ files'[FindFile] # files[FindFile]
           /\ calls'[i][k].pc = "done") =>
              /\ calls[i][k].expectedEtag # NoEtag
              /\ calls[i][k].expectedEtag = files[FindFile].etag]_vars

\* C30: no metadata commit of appendChanges, the first attempt included,
\* commits an entry whose revision generation is at or below the generation
\* of the index entry the handler holds for its id when the attempt commits.
C30_CommitChecksConflicts ==
    [][\A i \in Insts : \A k \in DOMAIN calls[i] :
          (calls[i][k].pc = "update" /\ calls'[i][k].pc = "done") =>
              StaleEntries(h[i].index, calls[i][k].changes) = {}]_vars

\* The step by which the compact() of handler i commits its metadata swap.
SwapCommits(i) == km[i].pc = "kupdate" /\ ~km[i].swapped /\ km'[i].swapped

\* C31: the MetaDocument committed by compact() lists, in their order, the log
\* ids the remote _meta.json held just before the commit that were not in the
\* list captured at the start, and differs from that remote MetaDocument only
\* in changeLogIds and snapshotIndexId (lastCompaction is not modelled).
C31_SwapKeepsLaterLogs ==
    [][\A i \in Insts : SwapCommits(i) =>
          /\ RemoteMeta'.changeLogIds =
                SelectSeq(RemoteMeta.changeLogIds,
                          LAMBDA f : f \notin Range(km[i].oldLogIds))
          /\ RemoteMeta' = [RemoteMeta EXCEPT
                              !.changeLogIds = RemoteMeta'.changeLogIds,
                              !.snapshotIndexId = km[i].newIndexId]]_vars

\* C32: the snapshot index written by compact() has an entry for every id that
\* was live in the instance's index when the compaction started, each pointing
\* at the new snapshot data object, which holds a body for each of these ids.
C32_SnapshotHoldsLiveDocs ==
    [][\A i \in Insts :
          (km[i].pc = "index" /\ km'[i].pc = "kfind") =>
              \A d \in km[i].allIds :
                 /\ files'[km'[i].newIndexId].content.entries[d] # NoEntry
                 /\ files'[km'[i].newIndexId].content.entries[d].fileId = km[i].dataFileId
                 /\ files[km[i].dataFileId].content.docs[d] # NoDoc]_vars

\* C33: once compact() has committed its swap and deleted the superseded
\* objects, no non-deleted entry of the compacting instance's index points at
\* an object that this compaction deleted.
C33_IndexAvoidsDeleted ==
    \A i \in Insts :
        (km[i].swapped /\ km[i].pc = "done") =>
            \A d \in Docs :
                (h[i].index[d].fileId # NoFile /\ ~h[i].index[d].deleted) =>
                    ~(/\ h[i].index[d].fileId \in Range(Obsolete(km[i]))
                      /\ ~files[h[i].index[d].fileId].live)

\* The step by which an appendChanges of handler i commits its metadata.
AppendCommits(i) ==
    \E k \in DOMAIN calls[i] :
        /\ calls[i][k].pc = "update"
        /\ calls'[i][k].pc # "update"
        /\ files'[FindFile] # files[FindFile]

\* C34: the seq of the remote _meta.json never decreases: every metadata
\* update by appendChanges or compact() writes a seq greater than or equal to
\* the seq it replaces.
C34_MetaSeqNeverDecreases ==
    [][(/\ FindFile # NoFile
        /\ \E i \in Insts : AppendCommits(i) \/ SwapCommits(i)) =>
            RemoteMeta'.seq >= RemoteMeta.seq]_vars

\* C35: after a precondition conflict appendChanges re-stamps the n pending
\* entries, in submission order, with s+1 .. s+n, where s is the seq of the
\* MetaDocument as reloaded, and the retried commit sets the MetaDocument's
\* seq to s+n.
C35_RetryRestamps ==
    [][\A i \in Insts : \A k \in DOMAIN calls[i] :
          LET c == calls[i][k]
              n == Len(c.changes)
          IN  /\ (c.pc = "loaded" /\ calls'[i][k].pc = "write") =>
                    /\ Len(calls'[i][k].changes) = n
                    /\ \A j \in 1..n :
                          /\ calls'[i][k].changes[j].seq = h[i].meta.seq + j
                          /\ calls'[i][k].changes[j].id = c.changes[j].id
                          /\ calls'[i][k].changes[j].rev = c.changes[j].rev
              /\ (c.attempt > 0 /\ c.pc = "update" /\ calls'[i][k].pc = "done") =>
                    RemoteMeta'.seq = (c.changes[1].seq - 1) + n]_vars

C35_Witness ==
    \E i \in Insts : \E k \in DOMAIN calls[i] :
        /\ calls[i][k].attempt > 0
        /\ calls[i][k].result = "ok"
        /\ Len(calls[i][k].changes) = 2
        /\ calls[i][k].changes[1].seq > 1
        /\ RemoteMeta.seq = calls[i][k].changes[2].seq

\* C36: for every non-empty batch of change entries, a batch of one entry
\* included, reading back the log object written for it yields the list of
\* the same entries in submission order.
C36_LogReadsBackAsList ==
    \A f \in DOMAIN files :
        files[f].kind = "log" =>
            /\ Parse(files[f]).kind = "array"
            /\ Parse(files[f]).entries = files[f].content

\* C37: getMulti(ids) returns a list of the length of ids whose i-th element
\* is the result for ids[i] (null for an id that is unknown or deleted, else
\* the cached body or the body found in the object of the index entry, at the
\* revision of the index entry), and it fetches each distinct object at most
\* once per call, however many of the requested ids that object holds.
C37_GetMultiAligned ==
    [][\A i \in Insts :
          (getRes' # getRes /\ getRes'.by = i) =>
              LET r == getRes'
                  hidden(d) == h[i].index[d].fileId = NoFile \/ h[i].index[d].deleted
              IN  /\ Len(r.results) = Len(r.ids)
                  /\ \A j \in 1..Len(r.ids) :
                        LET d == r.ids[j]
                            doc == r.results[j]
                        IN  /\ hidden(d) => doc = NoDoc
                            /\ (~hidden(d) /\ h[i].docCache[d] # NoDoc) =>
                                  doc = h[i].docCache[d]
                            /\ doc # NoDoc => doc = h'[i].docCache[d]
                            /\ (doc # NoDoc /\ h[i].docCache[d] = NoDoc) =>
                                  /\ doc.rev = h[i].index[d].rev
                                  /\ h[i].index[d].fileId \in Range(r.fetched)
                  /\ \A a, b \in 1..Len(r.fetched) :
                        a # b => r.fetched[a] # r.fetched[b]
                  /\ \A a \in 1..Len(r.fetched) :
                        \E d \in Range(r.ids) : h[i].index[d].fileId = r.fetched[a]]_vars

C37_Witness ==
    /\ getRes.by \in Insts
    /\ Len(getRes.ids) = 3
    /\ Len(getRes.fetched) = 1
    /\ \A d \in Docs : getRes.byFile[d] = getRes.fetched[1]
    /\ \A j \in 1..3 : getRes.results[j] # NoDoc

\* C38: on a notification each registered listener is invoked, whatever the
\* others do: a listener that throws does not prevent the listeners
\* registered after it from being called.
C38_ListenersIndependent ==
    [][\A i \in Insts :
          h'[i].notified.n > h[i].notified.n =>
              h'[i].notified.invoked = h[i].listeners]_vars

\* C39: after cancel() of a _changes feed has returned, opts.onChange and
\* opts.complete are not invoked again for that feed, also when a document
\* body fetch for include_docs is in flight at the time of the cancel, and the
\* feed's live listener is no longer registered on the DriveHandler.
C39_CancelSilencesFeed ==
    (feed.by # "none" /\ feed.cancelled) =>
        /\ feed.late = 0
        /\ "liveListener" \notin Range(h[feed.by].listeners)

\* C40: LRUCache.put of a new key into a full cache evicts exactly one entry,
\* the least recently used one, where a get that returns a value and a put
\* both count as a use; put of a key already present evicts nothing and
\* replaces its value.
C40_PutEvictsLeastRecentlyUsed ==
    [][(lru # NoCache /\ lru'.last.op = "put") =>
          LET key == lru'.last.key
              kept == IF Has(lru.map, key) THEN Keys(lru.map)
                      ELSE IF Len(lru.map) >= lru.capacity
                      THEN Keys(lru.map) \ {Head(lru.used)}
                      ELSE Keys(lru.map)
          IN  /\ Keys(lru'.map) = kept \cup {key}
              /\ Len(lru'.map) = Cardinality(Keys(lru'.map))
              /\ MapGet(lru'.map, key) = lru'.last.value
              /\ \A k \in kept \ {key} : MapGet(lru'.map, k) = MapGet(lru.map, k)
              /\ (~Has(lru.map, key) /\ Len(lru.map) >= lru.capacity) =>
                    /\ lru'.evicted = Head(lru.used)
                    /\ Len(lru'.map) = Len(lru.map)]_vars

C40_Witness ==
    /\ lru.capacity >= 2
    /\ lru.last.op = "put"
    /\ lru.evicted # "none"
    /\ Len(lru.map) = lru.capacity
    /\ lru.used = [k \in 1..Len(lru.map) |-> lru.map[k].key]
    /\ \E k \in 1..Len(lru.map) : lru.map[k].value = Undefined

====
